---- MODULE Spec2Model ----
(***************************************************************************)
(* A model of bms-dl.  The download manager (src/src/download.rs):         *)
(* execute_downloads with its two semaphore-bounded phases, the retry      *)
(* loop of download_file, the request handling of try_download and the     *)
(* temp-file-then-rename protocol of save_response over a small model of   *)
(* the output directory.  Around it: extract_and_normalize with            *)
(* ArchiveFormat::detect, extract_zip and flatten_single_subdirs over a    *)
(* tree of paths (src/src/main.rs, archive.rs, normalize.rs), the gate of  *)
(* resolve_with_browser (src/src/browser.rs), and resolve_url with its     *)
(* rewriting and scraping resolvers (src/src/resolve.rs).                  *)
(***************************************************************************)
EXTENDS Integers, Sequences, FiniteSets, TLC

\* ------------------------------------------------------------------ bounds

\* Number of tasks of the task list in the orchestration runs (Spec).
NumTasks == 2
\* Number of tasks of the task list in the runs of phase 1 (SpecResolve).
NumResolveTasks == 3
\* Number of tasks of the task list in the retry runs (SpecRetry).
NumRetryTasks == 1
\* Number of tasks of the task list in the racing runs (SpecRace).
NumRaceTasks == 2
\* The concurrency budget `jobs` is drawn from 1..MaxJobs.
MaxJobs == 2
\* Number of entries of an archive in the extraction runs (SpecExtract), at
\* most.
MaxEntries == 2
\* Number of tasks of each phase that call resolve_with_browser in the
\* browser runs (SpecBrowser).
NumCallers == 2
\* In the resolver runs (SpecResolver): the links of a page, the query
\* parameters of a Dropbox URL and the depth of pages that link to pages,
\* at most.
MaxLinks == 1
MaxPairs == 2
MaxHops == 1
\* The candidates of a page in the call-by-call runs of resolve_url
\* (SpecScrape), and the depth up to which nested calls are counted.
MaxCandidates == 2
MaxDepth == 2
\* The parameters of a Content-Disposition header.
MaxParams == 2
\* The outcomes main is handed, and the permits of extract_semaphore.
MaxResults == 2
MaxParallelism == 2
\* The tasks of the runs that go through every gate.
NumGateTasks == 1
\* Number of tasks in the runs where tasks wait at the gates (SpecContend).
NumContendTasks == 2

\* ------------------------------------------------------- program constants

\* download_file: `for attempt in 0..3`.
MaxAttempts == 3
\* execute_downloads: `Semaphore::new(jobs * 2)`.
ResolveFactor == 2
\* ArchiveFormat::detect: `let mut magic = [0u8; 8]`.
MagicLen == 8

\* ----------------------------------------------------------------- helpers

\* str.contains(sub) on Rust strings.
Contains(s, sub) ==
    \E i \in 1..(Len(s) - Len(sub) + 1) : SubSeq(s, i, i + Len(sub) - 1) = sub

Put(f, k, v) == [x \in (DOMAIN f) \cup {k} |-> IF x = k THEN v ELSE f[x]]

Del(f, k) == [x \in (DOMAIN f) \ {k} |-> f[x]]

Range(s) == {s[i] : i \in DOMAIN s}

EmptyMap == [x \in {} |-> 0]

\* ------------------------------------------------------------------ errors

\* An anyhow::Error: `msg` is what err.to_string() yields, `kind` records
\* which failure produced it (the code only ever looks at msg).
Error(kind, msg) == [kind |-> kind, msg |-> msg]

NoError == Error("none", "")

\* reqwest's error_for_status on a 4xx response.
ClientError(url) ==
    Error("http_4xx", "HTTP status client error (404 Not Found) for url (" \o url \o ")")

\* reqwest's error_for_status on a 5xx response.
ServerError(url) ==
    Error("http_5xx", "HTTP status server error (503 Service Unavailable) for url (" \o url \o ")")

\* reqwest's send() failing: connection reset, or the client's timeout.
SendError(how, url) ==
    IF how = "timeout"
    THEN Error("timeout", "error sending request for url (" \o url \o "): operation timed out")
    ELSE Error("network", "error sending request for url (" \o url \o "): connection reset")

\* reqwest's resp.text() failing.
TextError == Error("body_read", "error decoding response body")

GDriveAuthError ==
    Error("provider_denied", "Google Drive file requires authentication (likely deleted or private)")

GDriveConfirmError ==
    Error("markup", "Google Drive returned HTML confirmation page but could not extract download URL")

DropboxRemovedError ==
    Error("provider_denied", "Dropbox file has been removed or does not exist")

HtmlInsteadOfArchiveError ==
    Error("markup", "server returned HTML instead of archive file (Content-Type: text/html)")

\* std::io::Error of create_dir_all, as e.to_string() renders it.
CreateDirError == Error("create_dir", "Permission denied (os error 13)")

CreateTempError == Error("filesystem", "failed to create temp file")

BodyReadError == Error("body_read", "error reading response body")

WriteError == Error("filesystem", "No space left on device (os error 28)")

FlushError == Error("filesystem", "Input/output error (os error 5)")

RenameError == Error("filesystem", "No such file or directory (os error 2)")

DownloadedHtmlError ==
    Error("markup", "downloaded file is HTML, not an archive (possible redirect or error page)")

\* A mutant of is_retryable: the 4xx test is dropped.
is_retryable_no_4xx(err) ==
    ~ \/ Contains(err.msg, "server returned HTML")
      \/ Contains(err.msg, "Dropbox file has been removed")
      \/ Contains(err.msg, "Google Drive file requires authentication")
      \/ Contains(err.msg, "Google Drive returned HTML confirmation")
      \/ Contains(err.msg, "downloaded file is HTML")

is_retryable(err) ==
    IF Contains(err.msg, "status client error")
    THEN FALSE
    ELSE IF \/ Contains(err.msg, "server returned HTML")
            \/ Contains(err.msg, "Dropbox file has been removed")
            \/ Contains(err.msg, "Google Drive file requires authentication")
            \/ Contains(err.msg, "Google Drive returned HTML confirmation")
            \/ Contains(err.msg, "downloaded file is HTML")
    THEN FALSE
    ELSE TRUE

\* -------------------------------------------------------------------- URLs

\* The URL resolve_google_drive builds (resolve.rs:76-77).
GDriveUrl == "https://drive.google.com/uc?export=download&id=A&confirm=t"

\* A URL as resolve_dropbox returns it (resolve.rs:111-114).
DropboxUrl == "https://www.dropbox.com/s/A/x.zip?dl=1"

is_google_drive_url(url) ==
    Contains(url, "drive.google.com") \/ Contains(url, "drive.usercontent.google.com")

\* try_download's test for a Dropbox URL (download.rs:122).
is_dropbox_url(url) ==
    Contains(url, "dropbox.com") \/ Contains(url, "dropboxusercontent.com")

\* ----------------------------------------------------------- the task list

None == "<none>"

\* The DownloadTask list the orchestrator passes in: every task of a group
\* gets the group's directory and a fallback name of its own (main.rs:82-102).
OutputDir == "out"

DownloadTask(t) ==
    [url |-> "https://example.com/t" \o ToString(t),
     output_dir |-> OutputDir,
     fallback_name |-> "t" \o ToString(t) \o ".zip"]

TaskList(n) == [t \in 1..n |-> DownloadTask(t)]

\* ------------------------------------------------------ the server's answers

\* What the environment of a run can do: the filenames extract_filename can
\* find in a response (None: no name, so that the fallback name is used), the
\* sizes of the bodies in chunks, the URLs resolution can yield besides the
\* task's own, whether responses come as HTML pages, the ways a request
\* fails, whether the stream and the file system fail, and whether download
\* tasks panic.
Server(names, chunks, urls, pages, failures, faults, panics) ==
    [names |-> names, chunks |-> chunks, urls |-> urls, pages |-> pages,
     failures |-> failures, faults |-> faults, panics |-> panics]

\* Servers that answer with a one-chunk body, a connection reset or a 404;
\* a download task can panic.
SimpleServer ==
    Server({None}, {1}, {}, FALSE, {"reset", "4xx"}, FALSE, TRUE)

\* Servers and a file system that fail in every way download_file tells
\* apart.
FailingServer ==
    Server({None}, {1}, {GDriveUrl, DropboxUrl}, TRUE, {"reset", "timeout", "4xx", "5xx"},
           TRUE, FALSE)

\* Servers that all name their file alike, and can answer with a 404.
NamingServer == Server({"a.zip"}, {1}, {}, FALSE, {"4xx"}, FALSE, FALSE)

\* The environments of the runs, by name.
Environment(name) ==
    CASE name = "simple" -> SimpleServer
      [] name = "failing" -> FailingServer
      [] name = "naming" -> NamingServer

\* The body of the response that save_response receives: the name
\* extract_filename finds for it (None: no name), its length in chunks, and
\* whether its bytes are markup.
Bodies(server) ==
    {b \in [filename : server.names, chunks : server.chunks, markup : BOOLEAN] :
        b.chunks = 0 => ~b.markup}

NoBody == [filename |-> None, chunks |-> 0, markup |-> FALSE]

\* The answer to the follow-up request of try_download (the confirmation URL,
\* or the link secondary resolution found).
Follows(server) == {"ok"} \cup (server.failures \ {"timeout"})

Response(send, status, html, text_ok, page, follow, body) ==
    [send |-> send, status |-> status, html |-> html, text_ok |-> text_ok,
     page |-> page, follow |-> follow, body |-> body]

\* What an HTML page holds: a Drive confirmation form or link ("confirm"), a
\* Google login marker ("login"), a Dropbox removal marker ("removed"), a
\* link secondary resolution resolves ("link").
Pages ==
    {{}, {"confirm"}, {"login"}, {"removed"}, {"link"}, {"confirm", "login"},
     {"removed", "link"}}

Responses(server) ==
    {Response(f, "2xx", FALSE, TRUE, {}, "ok", NoBody) :
        f \in server.failures \cap {"reset", "timeout"}}
    \cup {Response("ok", f, FALSE, TRUE, {}, "ok", NoBody) :
            f \in server.failures \cap {"4xx", "5xx"}}
    \cup {Response("ok", st, FALSE, TRUE, {}, "ok", b) :
            st \in {"2xx", "3xx"}, b \in Bodies(server)}
    \cup IF ~server.pages THEN {}
         ELSE {Response("ok", "2xx", TRUE, FALSE, {}, "ok", NoBody)}
              \cup {Response("ok", "2xx", TRUE, TRUE, p, "ok", b) :
                      p \in Pages, b \in Bodies(server)}
              \cup {Response("ok", "2xx", TRUE, TRUE, p, f, NoBody) :
                      p \in Pages, f \in Follows(server) \ {"ok"}}

\* ------------------------------------------------------------ try_download

Err(e) == [ok |-> FALSE, err |-> e, body |-> NoBody]

Save(b) == [ok |-> TRUE, err |-> NoError, body |-> b]

\* The task panics instead of returning.
Panic == Err(Error("panic", "task panicked"))

\* `client.get(url).send().await?.error_for_status()?` on the follow-up
\* request, then save_response.
FollowUp(url, r) ==
    CASE r.follow = "reset" -> Err(SendError("reset", url))
      [] r.follow = "4xx" -> Err(ClientError(url))
      [] r.follow = "5xx" -> Err(ServerError(url))
      [] OTHER -> Save(r.body)

\* try_download up to its call of save_response: the error it returns, or
\* the body it hands to save_response.
try_download(url, r) ==
    IF r.send # "ok" THEN Err(SendError(r.send, url))
    ELSE IF r.status = "4xx" THEN Err(ClientError(url))
    ELSE IF r.status = "5xx" THEN Err(ServerError(url))
    ELSE IF r.html
    THEN IF is_google_drive_url(url)
         THEN IF ~r.text_ok THEN Err(TextError)
              ELSE IF "confirm" \in r.page THEN FollowUp("https://drive.usercontent.google.com/download", r)
              ELSE IF "login" \in r.page THEN Err(GDriveAuthError)
              ELSE Err(GDriveConfirmError)
         ELSE IF ~r.text_ok THEN Err(TextError)
              ELSE IF is_dropbox_url(url) /\ "removed" \in r.page
                   THEN Err(DropboxRemovedError)
              ELSE IF "link" \in r.page THEN FollowUp("https://example.com/found.zip", r)
              ELSE Err(HtmlInsteadOfArchiveError)
    ELSE Save(r.body)

\* The URLs a task list of n tasks can resolve to.
ResolvedUrls(n) == {DownloadTask(t).url : t \in 1..n} \cup {GDriveUrl, DropboxUrl}

\* The length of the longest task list of the runs that download.
MostTasks ==
    IF NumTasks > NumRaceTasks
    THEN (IF NumTasks > NumRetryTasks THEN NumTasks ELSE NumRetryTasks)
    ELSE (IF NumRaceTasks > NumRetryTasks THEN NumRaceTasks ELSE NumRetryTasks)

\* What one call of try_download can come to, by environment and URL: an
\* error, a body for save_response, or a panic of the task.
Outcomes ==
    [name \in {"simple", "failing", "naming"} |->
       [url \in ResolvedUrls(MostTasks) |->
          {try_download(url, r) : r \in Responses(Environment(name))}
          \cup (IF Environment(name).panics THEN {Panic} ELSE {})]]

\* The errors an attempt can end with.
Errors ==
    LET urls == ResolvedUrls(MostTasks)
                \cup {"https://drive.usercontent.google.com/download",
                      "https://example.com/found.zip"}
    IN UNION {{ClientError(u), ServerError(u), SendError("reset", u),
               SendError("timeout", u)} : u \in urls}
       \cup {TextError, GDriveAuthError, GDriveConfirmError, DropboxRemovedError,
             HtmlInsteadOfArchiveError, CreateTempError, BodyReadError, WriteError,
             FlushError, RenameError, DownloadedHtmlError}

\* is_retryable, tabulated over the errors an attempt can end with: the
\* errors download_file retries.
Retryable == {<<e, is_retryable(e)>> : e \in Errors}

\* ------------------------------------------------------------------- state

VARIABLES
    server,             \* the name of the environment of this run
    tasks,              \* execute_downloads' `tasks`
    jobs,               \* execute_downloads' `jobs`
    main,               \* where the body of execute_downloads stands
    resolve_semaphore,  \* free permits of resolve_semaphore
    resolve_handles,    \* the spawned resolve tasks, by task
    resolved_tasks,     \* the (resolved, task) pairs, as task numbers
    results,            \* the DownloadResult list being built
    download_semaphore, \* free permits of download_semaphore
    download_handles,   \* the spawned download tasks, by task
    dirs,               \* the directories that exist
    files,              \* the output directory: file name -> inode
    inodes,             \* inode -> the chunks written to it
    archive,            \* the archive file handed to extract_and_normalize
    extraction,         \* where extract_and_normalize stands
    tree,               \* the file system around the archive: path -> kind
    browser_semaphore,  \* free permits of BROWSER_SEMAPHORE
    browser_calls,      \* the calls of resolve_with_browser, by caller
    task_url,           \* the URL handed to resolve_url, `task.url`
    resolve_result,     \* what the resolve task made of task_url
    saved,              \* save_response: the response and the names chosen
    extract_semaphore,  \* free permits of main's extract_semaphore
    extract_handles,    \* the blocking tasks main has spawned, in order
    summary             \* main's counters and log lines

vars ==
    <<server, tasks, jobs, main, resolve_semaphore, resolve_handles, resolved_tasks,
      results, download_semaphore, download_handles, dirs, files, inodes,
      archive, extraction, tree, browser_semaphore, browser_calls, task_url, resolve_result,
      saved, extract_semaphore, extract_handles, summary>>

Tasks == DOMAIN tasks

\* A resolve task: not yet spawned, waiting for its permit, inside
\* resolve_url, or ended with a ResolveResult or a panic; `url` is
\* resolved.url.
ResolveHandle(pc, url) == [pc |-> pc, url |-> url]

\* A download task: `attempt` is download_file's loop variable, `requests`
\* counts the calls of try_download, `slept` the seconds of backoff, `err` is
\* the error the task met last (download_file's last_error), `body`, `written` and `handle` belong to the running
\* save_response, `result` is what the task returned.
NoResult == [kind |-> "none", task |-> 0, url |-> None, text |-> None]

\* What handle.await yields for a task that panicked: a JoinError.
JoinError == [kind |-> "panicked", task |-> 0, url |-> None, text |-> None]

IdleHandle ==
    [pc |-> "unspawned", attempt |-> 0, requests |-> 0, slept |-> 0, err |-> NoError,
     body |-> NoBody, written |-> 0, handle |-> None, result |-> NoResult]

Success(t, path) == [kind |-> "Success", task |-> t, url |-> None, text |-> path]

Skipped(t, url, reason) == [kind |-> "Skipped", task |-> t, url |-> url, text |-> reason]

Failed(t, url, error) == [kind |-> "Failed", task |-> t, url |-> url, text |-> error]

InitWith(n, srv, concurrency) ==
    /\ server = srv
    /\ tasks = TaskList(n)
    /\ jobs \in concurrency
    /\ main = [pc |-> "spawn_resolve", i |-> 1]
    /\ resolve_semaphore = jobs * ResolveFactor
    /\ resolve_handles = [t \in 1..n |-> ResolveHandle("unspawned", None)]
    /\ resolved_tasks = <<>>
    /\ results = <<>>
    /\ download_semaphore = 0
    /\ download_handles = [t \in 1..n |-> IdleHandle]
    /\ dirs = {}
    /\ files = EmptyMap
    /\ inodes = EmptyMap

\* extract_and_normalize: `format` is what detect found, `i` is the index of
\* extract_zip's loop, `skipped` the entries it skipped, `sub` the sub_dir of
\* flatten_single_subdirs, `todo` the entries still to relocate, `result`
\* what the function returned.
NoExtraction ==
    [pc |-> "idle", format |-> None, i |-> 1, skipped |-> {}, sub |-> <<>>,
     todo |-> {}, result |-> None]

\* The units around the download manager, at rest: no archive is being
\* extracted, no browser call is under way, no URL is being resolved alone.
AtRest(unit) ==
    CASE unit = "extraction" ->
            archive = [ext |-> ""] /\ extraction = [pc |-> "idle"] /\ tree = EmptyMap
      [] unit = "browser" -> browser_semaphore = 1 /\ browser_calls = EmptyMap
      [] unit = "resolver" -> task_url = [host |-> ""] /\ resolve_result = [pc |-> "idle"]
      [] unit = "filename" -> saved = [pc |-> "idle"]
      [] unit = "fanout" ->
            extract_semaphore = 0 /\ extract_handles = <<>> /\ summary = <<>>

\* What the actions of one unit leave alone: the variables of the others.
Others(unit) ==
    /\ unit \in {"manager", "fanout"} \/
          UNCHANGED <<server, tasks, jobs, main, resolve_semaphore, resolve_handles,
                      resolved_tasks, results, download_semaphore, download_handles,
                      dirs, files, inodes>>
    /\ unit = "extraction" \/ UNCHANGED <<archive, extraction, tree>>
    /\ unit = "browser" \/ UNCHANGED <<browser_semaphore, browser_calls>>
    /\ unit = "resolver" \/ UNCHANGED <<task_url, resolve_result>>
    /\ unit = "filename" \/ UNCHANGED saved
    /\ unit = "fanout" \/ UNCHANGED <<extract_semaphore, extract_handles, summary>>

Init ==
    /\ InitWith(NumTasks, "simple", 1..MaxJobs)
    /\ AtRest("extraction") /\ AtRest("browser") /\ AtRest("resolver") /\ AtRest("filename") /\ AtRest("fanout")

InitResolve ==
    /\ InitWith(NumResolveTasks, "simple", 1..MaxJobs)
    /\ AtRest("extraction") /\ AtRest("browser") /\ AtRest("resolver") /\ AtRest("filename") /\ AtRest("fanout")

\* The retry loop is a matter of one task: the tasks run one at a time.
InitRetry ==
    /\ InitWith(NumRetryTasks, "failing", {1})
    /\ AtRest("extraction") /\ AtRest("browser") /\ AtRest("resolver") /\ AtRest("filename") /\ AtRest("fanout")

InitRace ==
    /\ InitWith(NumRaceTasks, "naming", 1..MaxJobs)
    /\ AtRest("extraction") /\ AtRest("browser") /\ AtRest("resolver") /\ AtRest("filename") /\ AtRest("fanout")

\* ------------------------------------------- execute_downloads, phase 1

FsUnchanged == UNCHANGED <<dirs, files, inodes>>

InputsUnchanged ==
    UNCHANGED <<server, tasks, jobs, archive, extraction, tree, browser_semaphore,
                browser_calls, task_url, resolve_result, saved, extract_semaphore,
                extract_handles, summary>>

\* One turn of `for task in tasks { resolve_handles.push(tokio::spawn(..)) }`.
SpawnResolve ==
    /\ main.pc = "spawn_resolve"
    /\ resolve_handles' = [resolve_handles EXCEPT ![main.i].pc = "waiting"]
    /\ main' = IF main.i = Len(tasks)
               THEN [pc |-> "join_resolve", i |-> 1]
               ELSE [main EXCEPT !.i = @ + 1]
    /\ UNCHANGED <<resolve_semaphore, resolved_tasks, results, download_semaphore,
                   download_handles>>
    /\ FsUnchanged /\ InputsUnchanged

\* A mutant of AcquireResolve: the task does not wait for a permit.
AcquireResolveNoWait(t) ==
    /\ resolve_handles[t].pc = "waiting"
    /\ resolve_semaphore' = resolve_semaphore - 1
    /\ resolve_handles' = [resolve_handles EXCEPT ![t].pc = "resolving"]
    /\ UNCHANGED <<main, resolved_tasks, results, download_semaphore, download_handles>>
    /\ FsUnchanged /\ InputsUnchanged

\* `let _permit = sem.acquire().await.unwrap();` of a resolve task.
AcquireResolve(t) ==
    /\ resolve_handles[t].pc = "waiting"
    /\ resolve_semaphore > 0
    /\ resolve_semaphore' = resolve_semaphore - 1
    /\ resolve_handles' = [resolve_handles EXCEPT ![t].pc = "resolving"]
    /\ UNCHANGED <<main, resolved_tasks, results, download_semaphore, download_handles>>
    /\ FsUnchanged /\ InputsUnchanged

\* What resolve_url can come to for a task: Ok with the task's own URL or
\* with another one, an error, or a panic of the task.
ResolveOutcomes(t) ==
    {ResolveHandle("Resolved", u) : u \in {tasks[t].url} \cup Environment(server).urls}
    \cup {ResolveHandle("Skipped", None), ResolveHandle("panicked", None)}

\* The rest of a resolve task: resolve_url, then the task ends and drops
\* its permit.
ResolveUrl(t) ==
    /\ resolve_handles[t].pc = "resolving"
    /\ \E r \in ResolveOutcomes(t) :
          resolve_handles' = [resolve_handles EXCEPT ![t] = r]
    /\ resolve_semaphore' = resolve_semaphore + 1
    /\ UNCHANGED <<main, resolved_tasks, results, download_semaphore, download_handles>>
    /\ FsUnchanged /\ InputsUnchanged

ResolveReason == "no download link found"

\* Where execute_downloads goes once the last resolve handle is joined.
AfterResolveJoin(resolved) ==
    IF resolved = <<>> THEN [pc |-> "done", i |-> 1] ELSE [pc |-> "spawn_download", i |-> 1]

\* A mutant of Resolved: a task goes on to phase 2 however its resolution
\* ended.
ResolvedAll(rs, t, h) == Append(rs, t)

\* `Ok((Ok(resolved), task)) => resolved_tasks.push((resolved, task))`: the
\* other arms push nothing to resolved_tasks.
Resolved(rs, t, h) == IF h.pc = "Resolved" THEN Append(rs, t) ELSE rs

\* A mutant of JoinResolve: phase 2 begins once the first resolve handle
\* has been awaited.
JoinResolveFirstOnly ==
    /\ main.pc = "join_resolve"
    /\ LET t == main.i
           h == resolve_handles[t]
           resolved == Resolved(resolved_tasks, t, h)
       IN /\ h.pc \in {"Resolved", "Skipped", "panicked"}
          /\ resolved_tasks' = resolved
          /\ results' =
               CASE h.pc = "Skipped" ->
                      Append(results, Skipped(t, tasks[t].url, ResolveReason))
                 [] h.pc = "panicked" ->
                      Append(results, Failed(t, "unknown", "resolve task panicked"))
                 [] OTHER -> results
          /\ resolve_handles' = [resolve_handles EXCEPT ![t].pc = "joined_" \o h.pc]
          /\ main' = IF t >= 1 THEN AfterResolveJoin(resolved)
                     ELSE [main EXCEPT !.i = @ + 1]
          /\ download_semaphore' = IF t >= 1 THEN jobs ELSE download_semaphore
    /\ UNCHANGED <<resolve_semaphore, download_handles>>
    /\ FsUnchanged /\ InputsUnchanged

\* One turn of `for handle in resolve_handles { match handle.await {..} }`;
\* after the last one, download_semaphore is created.
JoinResolve ==
    /\ main.pc = "join_resolve"
    /\ LET t == main.i
           h == resolve_handles[t]
           resolved == Resolved(resolved_tasks, t, h)
       IN /\ h.pc \in {"Resolved", "Skipped", "panicked"}
          /\ resolved_tasks' = resolved
          /\ results' =
               CASE h.pc = "Skipped" ->
                      Append(results, Skipped(t, tasks[t].url, ResolveReason))
                 [] h.pc = "panicked" ->
                      Append(results, Failed(t, "unknown", "resolve task panicked"))
                 [] OTHER -> results
          /\ resolve_handles' = [resolve_handles EXCEPT ![t].pc = "joined_" \o h.pc]
          /\ main' = IF t = Len(tasks) THEN AfterResolveJoin(resolved)
                     ELSE [main EXCEPT !.i = @ + 1]
          /\ download_semaphore' = IF t = Len(tasks) THEN jobs ELSE download_semaphore
    /\ UNCHANGED <<resolve_semaphore, download_handles>>
    /\ FsUnchanged /\ InputsUnchanged

\* ------------------------------------------- execute_downloads, phase 2

Phase1Unchanged == UNCHANGED <<resolve_semaphore, resolve_handles, resolved_tasks>>

\* One turn of `for (resolved, task) in resolved_tasks { download_handles.push(..) }`.
SpawnDownload ==
    /\ main.pc = "spawn_download"
    /\ download_handles' =
         [download_handles EXCEPT ![resolved_tasks[main.i]].pc = "waiting"]
    /\ main' = IF main.i = Len(resolved_tasks)
               THEN [pc |-> "join_download", i |-> 1]
               ELSE [main EXCEPT !.i = @ + 1]
    /\ UNCHANGED <<results, download_semaphore>>
    /\ Phase1Unchanged /\ FsUnchanged /\ InputsUnchanged

\* A mutant of AcquireDownload: the task does not wait for a permit.
AcquireDownloadNoWait(t) ==
    /\ download_handles[t].pc = "waiting"
    /\ download_semaphore' = download_semaphore - 1
    /\ download_handles' = [download_handles EXCEPT ![t].pc = "create_dir"]
    /\ UNCHANGED <<main, results>>
    /\ Phase1Unchanged /\ FsUnchanged /\ InputsUnchanged

\* `let _permit = sem.acquire().await.unwrap();` of a download task.
AcquireDownload(t) ==
    /\ download_handles[t].pc = "waiting"
    /\ download_semaphore > 0
    /\ download_semaphore' = download_semaphore - 1
    /\ download_handles' = [download_handles EXCEPT ![t].pc = "create_dir"]
    /\ UNCHANGED <<main, results>>
    /\ Phase1Unchanged /\ FsUnchanged /\ InputsUnchanged

\* The download task returns `result`: its permit is dropped with it.
Return(h, result) ==
    [h EXCEPT !.pc = "finished", !.result = result, !.body = NoBody, !.written = 0,
              !.handle = None]

\* The error text of the Failed a download task returns (download.rs:447-451).
FailedText(t, e) ==
    IF resolve_handles[t].url # tasks[t].url
    THEN "[resolved: " \o resolve_handles[t].url \o "] " \o e.msg
    ELSE e.msg

\* The ways a step can fail when the stream and the file system fail at all.
Faults(kinds) == IF Environment(server).faults THEN kinds ELSE {}

\* The semaphore after a step of a download task that took it to h: a task
\* that ends drops its permit.
Released(h) == IF h.pc = "finished" THEN download_semaphore + 1 ELSE download_semaphore

\* A mutant of CreateDirFailed: the error is noted and the task goes on.
CreateDirFailedContinues(t, h) == [h EXCEPT !.pc = "try_download", !.err = CreateDirError]

\* `if let Err(e) = create_dir_all(..) { return DownloadResult::Failed {..} }`.
CreateDirFailed(t, h) ==
    Return([h EXCEPT !.err = CreateDirError], Failed(t, tasks[t].url, CreateDirError.msg))

\* `tokio::fs::create_dir_all(&task.output_dir)`: on an error the task
\* returns Failed without calling download_file.
CreateDir(t) ==
    /\ download_handles[t].pc = "create_dir"
    /\ \E o \in {"ok", "error"} :
         LET h == download_handles[t]
             after == IF o = "ok" THEN [h EXCEPT !.pc = "try_download"]
                      ELSE CreateDirFailed(t, h)
         IN /\ download_handles' = [download_handles EXCEPT ![t] = after]
            /\ download_semaphore' = Released(after)
            /\ dirs' = IF o = "ok" THEN dirs \cup {tasks[t].output_dir} ELSE dirs
    /\ UNCHANGED <<main, results, files, inodes>>
    /\ Phase1Unchanged /\ InputsUnchanged

\* A mutant of Backoff: the delay grows linearly.
BackoffLinear(attempt) == 4 * attempt

\* `Duration::from_secs(1 << (2 * attempt))`.
Backoff(attempt) == 2 ^ (2 * attempt)

\* download_file's retry: the loop goes on with the next attempt, which
\* begins with the backoff sleep.
Retry(h, e) ==
    [h EXCEPT !.pc = "backoff", !.attempt = @ + 1, !.err = e, !.body = NoBody,
              !.written = 0, !.handle = None]

\* A mutant of AttemptFailed: a non-retryable error is retried like any other.
AttemptFailedRetryAll(t, h, e) ==
    IF h.attempt + 1 < MaxAttempts
    THEN Retry(h, e)
    ELSE Return([h EXCEPT !.err = e], Failed(t, tasks[t].url, FailedText(t, e)))

\* A mutant of AttemptFailed: one attempt more than the cap.
AttemptFailedOneMore(t, h, e) ==
    IF <<e, TRUE>> \in Retryable /\ h.attempt + 1 < MaxAttempts + 1
    THEN Retry(h, e)
    ELSE Return([h EXCEPT !.err = e], Failed(t, tasks[t].url, FailedText(t, e)))

\* download_file's `Err(e)` arm (is_retryable, last_error, the end of the
\* loop) and the Failed of the download task that follows from it.
AttemptFailed(t, h, e) ==
    IF <<e, TRUE>> \in Retryable /\ h.attempt + 1 < MaxAttempts
    THEN Retry(h, e)
    ELSE Return([h EXCEPT !.err = e], Failed(t, tasks[t].url, FailedText(t, e)))

\* `tokio::time::sleep(delay).await` before a retry. last_error is read only
\* after the loop, when it holds the last attempt's error: the model drops
\* it here.
Sleep(t) ==
    /\ download_handles[t].pc = "backoff"
    /\ download_handles' =
         [download_handles EXCEPT ![t].pc = "try_download",
                                  ![t].slept = @ + Backoff(download_handles[t].attempt),
                                  ![t].err = NoError]
    /\ UNCHANGED <<main, results, download_semaphore>>
    /\ Phase1Unchanged /\ FsUnchanged /\ InputsUnchanged

\* try_download up to save_response: the request and what try_download makes
\* of the response. The task may also panic.
TryDownload(t) ==
    /\ download_handles[t].pc = "try_download"
    /\ LET h == download_handles[t]
           started == [h EXCEPT !.requests = @ + 1]
       IN \E res \in Outcomes[server][resolve_handles[t].url] :
            LET after == IF res = Panic THEN Return(started, JoinError)
                         ELSE IF res.ok
                         THEN [started EXCEPT !.pc = "create_tmp", !.body = res.body]
                         ELSE AttemptFailed(t, started, res.err)
            IN /\ download_handles' = [download_handles EXCEPT ![t] = after]
               /\ download_semaphore' = Released(after)
    /\ UNCHANGED <<main, results>>
    /\ Phase1Unchanged /\ FsUnchanged /\ InputsUnchanged

\* ----------------------------------------------------------- save_response

\* `extract_filename(..).unwrap_or_else(|| fallback_name.to_string())`.
FileName(t, h) ==
    IF h.body.filename = None THEN tasks[t].fallback_name ELSE h.body.filename

\* `output_dir.join(&filename)`, as the name within the output directory.
Dest(t, h) == FileName(t, h)

\* A mutant of Tmp: the body is written straight to the final name.
TmpIsDest(t, h) == FileName(t, h)

\* `output_dir.join(format!(".{filename}.tmp"))`.
Tmp(t, h) == "." \o FileName(t, h) \o ".tmp"

PathOf(t, name) == tasks[t].output_dir \o "/" \o name

\* The inode a File::create makes when the name does not exist yet.
NewInode(t, h) == "inode-" \o ToString(t) \o "-" \o ToString(h.attempt)

\* A chunk of the body of task t's response: the idx-th of `of`.
Chunk(t, h) ==
    [src |-> t, idx |-> h.written + 1, of |-> h.body.chunks, markup |-> h.body.markup]

\* An inode lives while a name or an open file refers to it.
Collect(fs, hs, ino) ==
    [i \in {j \in DOMAIN ino : \/ \E n \in DOMAIN fs : fs[n] = j
                               \/ \E t \in DOMAIN hs : hs[t].handle = j} |-> ino[i]]

\* A step of save_response that takes the task to h2, the directory to fs
\* and the inodes to ino.
SaveStep(t, h2, fs, ino) ==
    /\ download_handles' = [download_handles EXCEPT ![t] = h2]
    /\ download_semaphore' = Released(h2)
    /\ files' = fs
    /\ inodes' = Collect(fs, download_handles', ino)
    /\ UNCHANGED <<main, results, dirs>>
    /\ Phase1Unchanged /\ InputsUnchanged

\* `tokio::fs::File::create(&tmp).await.context("failed to create temp file")?`:
\* an existing file of that name is truncated, else a new one is made.
CreateTmp(t) ==
    /\ download_handles[t].pc = "create_tmp"
    /\ LET h == download_handles[t]
           tmp == Tmp(t, h)
           ino == IF tmp \in DOMAIN files THEN files[tmp] ELSE NewInode(t, h)
       IN \E o \in {"ok"} \cup Faults({"error"}) :
            IF o = "ok"
            THEN SaveStep(t, [h EXCEPT !.pc = "write", !.written = 0, !.handle = ino],
                          Put(files, tmp, ino), Put(inodes, ino, <<>>))
            ELSE SaveStep(t, AttemptFailed(t, h, CreateTempError), files, inodes)

\* One turn of `while let Some(chunk) = stream.next().await`: the chunk is
\* read and written to the open file, or reading or writing fails.
WriteChunk(t) ==
    /\ download_handles[t].pc = "write"
    /\ LET h == download_handles[t]
       IN /\ h.written < h.body.chunks
          /\ \E o \in {"ok"} \cup Faults({"read_error", "write_error"}) :
               CASE o = "ok" ->
                      SaveStep(t, [h EXCEPT !.written = @ + 1], files,
                               [inodes EXCEPT ![h.handle] = Append(@, Chunk(t, h))])
                 [] o = "read_error" ->
                      SaveStep(t, AttemptFailed(t, h, BodyReadError), files, inodes)
                 [] OTHER ->
                      SaveStep(t, AttemptFailed(t, h, WriteError), files, inodes)

\* `tokio::fs::rename(&tmp, &dest)` on the directory.
RenameTo(fs, tmp, dest) == Put(Del(fs, tmp), dest, fs[tmp])

\* The end of the stream: `file.flush().await?; drop(file);` and
\* `tokio::fs::rename(&tmp, &dest).await?`, which fails when no file of the
\* temporary name exists any more.
Rename(t) ==
    /\ download_handles[t].pc = "write"
    /\ LET h == download_handles[t]
           tmp == Tmp(t, h)
       IN /\ h.written = h.body.chunks
          /\ \E o \in {"ok"} \cup Faults({"flush_error", "rename_error"}) :
               CASE o = "flush_error" ->
                      SaveStep(t, AttemptFailed(t, h, FlushError), files, inodes)
                 [] o = "rename_error" \/ tmp \notin DOMAIN files ->
                      SaveStep(t, AttemptFailed(t, h, RenameError), files, inodes)
                 [] OTHER ->
                      SaveStep(t, [h EXCEPT !.pc = "is_html", !.handle = None],
                               RenameTo(files, tmp, Dest(t, h)), inodes)

\* archive::is_html on the bytes of a file: the heuristic looks at how the
\* file begins.
is_html(content) == content # <<>> /\ content[1].markup

\* `archive::is_html(&dest)`: the heuristic's verdict on the file now under
\* that name; a file that is gone cannot be read and is no HTML.
FileIsHtml(fs, ino, dest) == dest \in DOMAIN fs /\ is_html(ino[fs[dest]])

\* `if archive::is_html(&dest) {..}` and, when it is not, `Ok(dest)`: the
\* download task returns Success.
IsHtml(t) ==
    /\ download_handles[t].pc = "is_html"
    /\ LET h == download_handles[t]
           dest == Dest(t, h)
       IN IF FileIsHtml(files, inodes, dest)
          THEN SaveStep(t, [h EXCEPT !.pc = "remove_file"], files, inodes)
          ELSE SaveStep(t, Return(h, Success(t, PathOf(t, dest))), files, inodes)

\* `let _ = tokio::fs::remove_file(&dest).await;` whose failure is ignored,
\* then the error "downloaded file is HTML".
RemoveFile(t) ==
    /\ download_handles[t].pc = "remove_file"
    /\ LET h == download_handles[t]
       IN \E o \in {"ok"} \cup Faults({"error"}) :
            SaveStep(t, AttemptFailed(t, h, DownloadedHtmlError),
                     IF o = "ok" THEN Del(files, Dest(t, h)) ELSE files, inodes)

\* A download task whose handle has been awaited: its locals are gone, what
\* it returned has been taken.
Joined(h) == [IdleHandle EXCEPT !.pc = "joined", !.result = h.result]

\* A mutant of Awaited: the outcome is put in front of the list.
AwaitedInFront(rs, t, r) ==
    <<IF r.kind = "panicked" THEN Failed(t, "unknown", "task panicked") ELSE r>> \o rs

\* A mutant of Awaited: the result of a task that panicked is dropped.
AwaitedDropsPanic(rs, t, r) == IF r.kind = "panicked" THEN rs ELSE Append(rs, r)

\* `match handle.await { Ok(result) => results.push(result), Err(e) =>
\* results.push(DownloadResult::Failed {..}) }`.
Awaited(rs, t, r) ==
    Append(rs, IF r.kind = "panicked" THEN Failed(t, "unknown", "task panicked") ELSE r)

\* One turn of `for handle in download_handles { match handle.await {..} }`.
JoinDownload ==
    /\ main.pc = "join_download"
    /\ LET t == resolved_tasks[main.i]
           h == download_handles[t]
       IN /\ h.pc = "finished"
          /\ results' = Awaited(results, t, h.result)
          /\ download_handles' = [download_handles EXCEPT ![t] = Joined(h)]
          /\ main' = IF main.i = Len(resolved_tasks) THEN [pc |-> "done", i |-> 1]
                     ELSE [main EXCEPT !.i = @ + 1]
    /\ UNCHANGED download_semaphore
    /\ Phase1Unchanged /\ FsUnchanged /\ InputsUnchanged

\* ------------------------------------------------------------ specification

Next ==
    \/ SpawnResolve
    \/ \E t \in Tasks : AcquireResolve(t)
    \/ \E t \in Tasks : ResolveUrl(t)
    \/ JoinResolve
    \/ SpawnDownload
    \/ \E t \in Tasks : AcquireDownload(t)
    \/ \E t \in Tasks : CreateDir(t)
    \/ \E t \in Tasks : TryDownload(t)
    \/ \E t \in Tasks : Sleep(t)
    \/ \E t \in Tasks : CreateTmp(t)
    \/ \E t \in Tasks : WriteChunk(t)
    \/ \E t \in Tasks : Rename(t)
    \/ \E t \in Tasks : IsHtml(t)
    \/ \E t \in Tasks : RemoveFile(t)
    \/ JoinDownload

\* The orchestration runs: NumTasks tasks against servers that answer
\* plainly.
Spec == Init /\ [][Next]_vars

\* Phase 1 of execute_downloads, up to the last join of a resolve task.
NextResolve ==
    \/ SpawnResolve
    \/ \E t \in Tasks : AcquireResolve(t)
    \/ \E t \in Tasks : ResolveUrl(t)
    \/ JoinResolve

SpecResolve == InitResolve /\ [][NextResolve]_vars

\* The retry runs: NumRetryTasks tasks against servers and a file system
\* that fail in every way.
SpecRetry == InitRetry /\ [][Next]_vars

\* The racing runs: NumRaceTasks tasks whose responses can carry the same
\* filename.
SpecRace == InitRace /\ [][Next]_vars

\* ------------------------------------------------ paths and the file tree

\* A std::path::Path is the sequence of its components; an absolute path
\* starts with the root component.  Components keep `..` as it is written.
Root == "/"

\* Path::join: an absolute `name` replaces `base`.
join(base, name) == IF name # <<>> /\ name[1] = Root THEN name ELSE base \o name

\* Path::starts_with (and <[u8]>::starts_with): `base` is a prefix of `path`,
\* component by component; nothing is normalised.
starts_with(path, base) ==
    Len(path) >= Len(base) /\ SubSeq(path, 1, Len(base)) = base

\* Path::parent: the path without its last component.
parent(path) == SubSeq(path, 1, Len(path) - 1)

\* Where the operating system finds `path`: `..` steps up to the parent
\* directory, and the parent of the root is the root.
RECURSIVE Resolve(_)
Resolve(path) ==
    IF path = <<>> THEN <<>>
    ELSE LET up == Resolve(parent(path))
             c == path[Len(path)]
         IN  IF c = ".." THEN (IF Len(up) <= 1 THEN up ELSE parent(up)) ELSE Append(up, c)

\* The entries of `tree` in and below `dir`, and those directly in it
\* (fs::read_dir).
Below(t, dir) == {p \in DOMAIN t : starts_with(p, dir)}

read_dir(t, dir) == {p \in Below(t, dir) : Len(p) = Len(dir) + 1}

\* fs::create_dir_all: every prefix of `path` becomes a directory where the
\* system finds it; it fails when one of them is a file.
create_dir_all(t, path) ==
    LET made == {Resolve(SubSeq(path, 1, k)) : k \in 1..Len(path)}
    IN  [ok |-> \A d \in made : d \in DOMAIN t => t[d] = "dir",
         tree |-> [p \in (DOMAIN t) \cup made |-> IF p \in DOMAIN t THEN t[p] ELSE "dir"]]

\* fs::rename of `from` to a `to` that does not exist: the entry moves with
\* all that is below it.
rename(t, from, to) ==
    LET moved == Below(t, from)
        At(p) == to \o SubSeq(p, Len(from) + 1, Len(p))
    IN  [p \in ((DOMAIN t) \ moved) \cup {At(q) : q \in moved} |->
            IF p \in (DOMAIN t) \ moved THEN t[p]
            ELSE t[CHOOSE q \in moved : At(q) = p]]

\* fs::remove_dir_all, fs::remove_dir and fs::remove_file.
remove(t, path) == [p \in (DOMAIN t) \ Below(t, path) |-> t[p]]

\* ------------------------------------------------- ArchiveFormat::detect

\* str::to_lowercase on the extensions the runs use.
to_lowercase(s) ==
    CASE s = "ZIP" -> "zip"
      [] s = ".ZIP" -> ".zip"
      [] s = "Rar" -> "rar"
      [] s = "7Z" -> "7z"
      [] s = "LZH" -> "lzh"
      [] s = "Lha" -> "lha"
      [] OTHER -> s

\* A mutant of detect: the extension alone decides.
detect_by_extension(file) ==
    LET ext == to_lowercase(file.ext)
    IN  CASE ext = "zip" -> "Zip"
          [] ext = "rar" -> "Rar"
          [] ext = "7z" -> "SevenZ"
          [] ext \in {"lzh", "lha"} -> "Lzh"
          [] OTHER -> "unknown"

\* ArchiveFormat::detect on a file that opens and reads: `file.magic` is
\* `&magic[..n]`, the leading bytes of the file, eight at most; "unknown" is
\* the error `unknown archive format`.
detect(file) ==
    LET ext == to_lowercase(file.ext)
        magic == file.magic
    IN  IF starts_with(magic, <<"P", "K">>) THEN "Zip"
        ELSE IF starts_with(magic, <<"R", "a", "r", "!">>) THEN "Rar"
        ELSE IF starts_with(magic, <<"7", "z", "BC", "AF", "27", "1C">>) THEN "SevenZ"
        ELSE IF Len(magic) >= 5 /\ magic[3] = "-" /\ magic[4] = "l" THEN "Lzh"
        ELSE CASE ext = "zip" -> "Zip"
               [] ext = "rar" -> "Rar"
               [] ext = "7z" -> "SevenZ"
               [] ext \in {"lzh", "lha"} -> "Lzh"
               [] OTHER -> "unknown"

\* ------------------------------------------------- extract_and_normalize

\* The entries the archives of the extraction runs are made of, each with
\* its name as it is stored and whether it is a directory: plain and nested
\* names, a directory, and the two patterns of path traversal.
Entries ==
    {[name |-> n, is_dir |-> FALSE] :
        n \in {<<"a">>, <<"b">>, <<"a", "a">>, <<"a", "b">>,
               <<"..", "..", "evil">>, <<Root, "evil">>}}
    \cup {[name |-> <<"a">>, is_dir |-> TRUE]}

\* The archives of the extraction runs, each with its leading bytes, the
\* extension of its name and its entries: zip files by magic or by name, and
\* files of no known format, of MaxEntries entries at most.
Archives ==
    {[magic |-> m, ext |-> x, entries |-> e] :
        m \in {<<"P", "K", "03", "04">>, <<>>},
        x \in {"zip", "bin"},
        e \in UNION {[1..n -> Entries] : n \in 0..MaxEntries}}

\* archive_path.parent() and the extraction workspace of extract_archive,
\* `base_dir.join(format!(".{stem}_extracted"))`, for an archive `a.<ext>`
\* in /out.
Parent == <<Root, "out">>

archive_path == join(Parent, <<"a." \o archive.ext>>)

extract_dir == join(Parent, <<".a_extracted">>)

\* extract_and_normalize is entered: the directory of the archive holds the
\* archive, alone or with a file the archive also holds.
InitExtract ==
    /\ InitWith(0, "simple", {1})
    /\ AtRest("browser") /\ AtRest("resolver") /\ AtRest("filename") /\ AtRest("fanout")
    /\ archive \in Archives
    /\ \E others \in SUBSET {join(Parent, <<"b">>)} :
          tree = [p \in {<<Root>>, Parent} \cup {archive_path} \cup others |->
                     IF p \in {<<Root>>, Parent} THEN "dir" ELSE "file"]
    /\ extraction = [NoExtraction EXCEPT !.pc = "detect"]

\* extract_and_normalize returns.
Returns(result) == [extraction EXCEPT !.pc = "returned", !.result = result]

\* extract_and_normalize down to ArchiveFormat::detect, through
\* extract_archive and extract: the file fails to open or to read, or its
\* format is unknown, or the format is known.
Detect ==
    /\ extraction.pc = "detect"
    /\ \E io \in {"ok", "err"} :
          extraction' =
             IF io = "ok" /\ detect(archive) # "unknown"
             THEN [extraction EXCEPT !.pc = "create_dir", !.format = detect(archive)]
             ELSE [Returns("Err") EXCEPT !.format = IF io = "ok" THEN "unknown" ELSE None]
    /\ UNCHANGED <<archive, tree>> /\ Others("extraction")

\* extract: `fs::create_dir_all(output_dir)?`.
CreateExtractDir ==
    /\ extraction.pc = "create_dir"
    /\ \E io \in {"ok", "err"} :
          LET made == create_dir_all(tree, extract_dir)
          IN  IF io = "ok" /\ made.ok
              THEN /\ tree' = made.tree
                   /\ extraction' = [extraction EXCEPT !.pc = "unpack"]
              ELSE /\ tree' = tree
                   /\ extraction' = Returns("Err")
    /\ UNCHANGED archive /\ Others("extraction")

\* One turn of extract_zip's `for i in 0..archive.len()`, and its Ok(())
\* after the last one.  The entry fails to be read, or a directory cannot be
\* made, or the file cannot be created where a directory stands.
ExtractEntry ==
    /\ extraction.pc = "unpack" /\ extraction.format = "Zip"
    /\ LET i == extraction.i
       IN  IF i > Len(archive.entries)
           THEN /\ extraction' = [extraction EXCEPT !.pc = "flatten"]
                /\ tree' = tree
           ELSE LET entry == archive.entries[i]
                    path == join(extract_dir, entry.name)
                    made == create_dir_all(tree, IF entry.is_dir THEN path ELSE parent(path))
                    at == Resolve(path)
                    next == [extraction EXCEPT !.i = i + 1]
                IN  \E io \in {"ok", "err"} :
                       IF io = "err"
                       THEN tree' = tree /\ extraction' = Returns("Err")
                       ELSE IF ~starts_with(path, extract_dir)
                       THEN /\ tree' = tree
                            /\ extraction' = [next EXCEPT !.skipped = @ \cup {i}]
                       ELSE IF ~made.ok
                       THEN tree' = tree /\ extraction' = Returns("Err")
                       ELSE IF entry.is_dir
                       THEN tree' = made.tree /\ extraction' = next
                       ELSE IF at \in DOMAIN made.tree /\ made.tree[at] = "dir"
                       THEN tree' = made.tree /\ extraction' = Returns("Err")
                       ELSE tree' = Put(made.tree, at, "file") /\ extraction' = next
    /\ UNCHANGED archive /\ Others("extraction")

\* flatten_single_subdirs: the head of one turn of its loop; the loop ends
\* unless the directory holds one entry and that entry is a directory.
Flatten ==
    /\ extraction.pc = "flatten"
    /\ \E io \in {"ok", "err"} :
          LET entries == read_dir(tree, extract_dir)
          IN  extraction' =
                 IF io = "err" THEN Returns("Err")
                 ELSE IF Cardinality(entries) = 1 /\ \A e \in entries : tree[e] = "dir"
                 THEN [extraction EXCEPT !.pc = "flatten_move",
                                         !.sub = CHOOSE e \in entries : TRUE]
                 ELSE [extraction EXCEPT !.pc = "relocate", !.todo = entries]
    /\ UNCHANGED <<archive, tree>> /\ Others("extraction")

\* flatten_single_subdirs: one turn of `for entry in fs::read_dir(&sub_dir)`
\* in whatever order the directory yields its entries, and the remove_dir
\* after the last one.  A rename onto the subdirectory itself fails, as it
\* is a directory that is not empty.
FlattenMove ==
    /\ extraction.pc = "flatten_move"
    /\ LET sub_dir == extraction.sub
           inside == read_dir(tree, sub_dir)
       IN  \E io \in {"ok", "err"} :
              IF io = "err"
              THEN tree' = tree /\ extraction' = Returns("Err")
              ELSE IF inside = {}
              THEN /\ tree' = remove(tree, sub_dir)
                   /\ extraction' = [extraction EXCEPT !.pc = "flatten"]
              ELSE \E entry \in inside :
                      LET dest == join(extract_dir, <<entry[Len(entry)]>>)
                      IN  IF dest \in DOMAIN tree
                          THEN tree' = tree /\ extraction' = Returns("Err")
                          ELSE tree' = rename(tree, entry, dest) /\ extraction' = extraction
    /\ UNCHANGED archive /\ Others("extraction")

\* extract_and_normalize: one turn of `for entry in read_dir(&extract_dir)`;
\* an entry whose name exists in `parent` stays where it is.
Relocate ==
    /\ extraction.pc = "relocate"
    /\ LET todo == extraction.todo
       IN  IF todo = {}
           THEN tree' = tree /\ extraction' = [extraction EXCEPT !.pc = "clean_up"]
           ELSE \E entry \in todo, io \in {"ok", "err"} :
                   LET dest == join(Parent, <<entry[Len(entry)]>>)
                       next == [extraction EXCEPT !.todo = todo \ {entry}]
                   IN  IF io = "err"
                       THEN tree' = tree /\ extraction' = Returns("Err")
                       ELSE IF dest \in DOMAIN tree
                       THEN tree' = tree /\ extraction' = next
                       ELSE tree' = rename(tree, entry, dest) /\ extraction' = next
    /\ UNCHANGED archive /\ Others("extraction")

\* extract_and_normalize: `let _ = remove_dir_all(&extract_dir); let _ =
\* remove_file(archive_path); Ok(())`; either removal can fail unnoticed.
CleanUp ==
    /\ extraction.pc = "clean_up"
    /\ \E dir_io \in {"ok", "err"}, file_io \in {"ok", "err"} :
          LET t == IF dir_io = "ok" THEN remove(tree, extract_dir) ELSE tree
          IN  tree' = IF file_io = "ok" THEN remove(t, archive_path) ELSE t
    /\ extraction' = Returns("Ok")
    /\ UNCHANGED archive /\ Others("extraction")

NextExtract ==
    \/ Detect
    \/ CreateExtractDir
    \/ ExtractEntry
    \/ Flatten
    \/ FlattenMove
    \/ Relocate
    \/ CleanUp

\* The extraction runs: extract_and_normalize on one archive of Archives over
\* a file system that can fail at every step.
SpecExtract == InitExtract /\ [][NextExtract]_vars

\* The files of the detection runs: the first bytes of a zip, a rar, a 7z
\* and an lzh file, of a file that starts as a zip and goes on as an lzh, and
\* of a file of no format, each cut to every length a short file can have,
\* under names of every known extension in either case, of an unknown one
\* and of none.
InitDetect ==
    /\ InitWith(0, "simple", {1})
    /\ AtRest("browser") /\ AtRest("resolver") /\ AtRest("filename") /\ AtRest("fanout")
    /\ \E head \in {<<"P", "K", "03", "04", "14", "00", "00", "00">>,
                     <<"R", "a", "r", "!", "1A", "07", "00", "CF">>,
                     <<"7", "z", "BC", "AF", "27", "1C", "00", "04">>,
                     <<"20", "00", "-", "l", "h", "5", "-", "00">>,
                     <<"P", "K", "-", "l", "h", "5", "-", "00">>,
                     <<"00", "00", "00", "00", "00", "00", "00", "00">>},
          n \in 0..MagicLen,
          x \in {"zip", "ZIP", "rar", "Rar", "7z", "7Z", "lzh", "LZH", "lha", "Lha", "bin", ""} :
          archive = [magic |-> SubSeq(head, 1, n), ext |-> x, entries |-> <<>>]
    /\ tree = [p \in {<<Root>>, Parent, archive_path} |->
                  IF p = archive_path THEN "file" ELSE "dir"]
    /\ extraction = [NoExtraction EXCEPT !.pc = "detect"]

\* The detection runs: ArchiveFormat::detect on one file.
SpecDetect == InitDetect /\ [][Detect]_vars

\* ------------------------------------------------- resolve_with_browser

\* The tasks that call resolve_with_browser: resolve tasks of phase 1
\* (through resolve_url) and download tasks of phase 2 (through
\* find_download_from_candidates).
Callers == {[phase |-> p, task |-> t] : p \in {"resolve", "download"}, t \in 1..NumCallers}

\* A call of resolve_with_browser: `permit` is whether it holds _permit,
\* `browser` whether it owns a launched Browser, `result` what it returned.
BrowserCall(pc, permit, browser, result) ==
    [pc |-> pc, permit |-> permit, browser |-> browser, result |-> result]

InitBrowser ==
    /\ InitWith(0, "simple", {1})
    /\ AtRest("extraction") /\ AtRest("resolver") /\ AtRest("filename") /\ AtRest("fanout")
    /\ browser_semaphore = 1
    /\ browser_calls = [c \in Callers |-> BrowserCall("idle", FALSE, FALSE, None)]

\* A task enters resolve_with_browser and waits at `acquire().await`.
CallBrowser(c) ==
    /\ browser_calls[c].pc = "idle"
    /\ browser_calls' = [browser_calls EXCEPT ![c].pc = "acquire"]
    /\ UNCHANGED browser_semaphore /\ Others("browser")

\* A mutant of AcquireBrowser: the call goes on without a permit.
AcquireBrowserNoWait(c) ==
    /\ browser_calls[c].pc = "acquire"
    /\ browser_semaphore' = browser_semaphore
    /\ browser_calls' = [browser_calls EXCEPT ![c].pc = "launch", ![c].permit = TRUE]
    /\ Others("browser")

\* `let _permit = browser_semaphore().acquire().await?`: the semaphore is
\* never closed, so the call goes on once a permit is free.
AcquireBrowser(c) ==
    /\ browser_calls[c].pc = "acquire"
    /\ browser_semaphore > 0
    /\ browser_semaphore' = browser_semaphore - 1
    /\ browser_calls' = [browser_calls EXCEPT ![c].pc = "launch", ![c].permit = TRUE]
    /\ Others("browser")

\* A mutant of ReturnBrowser: a call that returns an error keeps its permit.
ReturnBrowserKeepsPermit(c, result) ==
    /\ browser_calls' = [browser_calls EXCEPT
                            ![c] = BrowserCall("returned", result = "Err", FALSE, result)]
    /\ browser_semaphore' = IF result = "Err" THEN browser_semaphore ELSE browser_semaphore + 1

\* resolve_with_browser returns: `browser` is dropped, by drop(browser) or
\* as a local, and then `_permit`, which gives the permit back.
ReturnBrowser(c, result) ==
    /\ browser_calls' = [browser_calls EXCEPT ![c] = BrowserCall("returned", FALSE, FALSE, result)]
    /\ browser_semaphore' = browser_semaphore + 1

\* BrowserConfig::builder()..build()? and Browser::launch(config).await?,
\* then the handler task is spawned.
LaunchBrowser(c) ==
    /\ browser_calls[c].pc = "launch"
    /\ \E o \in {"ok", "err"} :
          IF o = "ok"
          THEN /\ browser_calls' = [browser_calls EXCEPT ![c].pc = "new_page", ![c].browser = TRUE]
               /\ UNCHANGED browser_semaphore
          ELSE ReturnBrowser(c, "Err")
    /\ Others("browser")

\* browser.new_page(raw_url).await?, page.wait_for_navigation().await? with
\* the settle delay, page.evaluate(..).await?.into_value()?, one after the
\* other.
RenderPage(c) ==
    /\ browser_calls[c].pc \in {"new_page", "wait_for_navigation", "evaluate"}
    /\ \E o \in {"ok", "err"} :
          IF o = "ok"
          THEN /\ browser_calls' =
                     [browser_calls EXCEPT ![c].pc =
                         CASE @ = "new_page" -> "wait_for_navigation"
                           [] @ = "wait_for_navigation" -> "evaluate"
                           [] OTHER -> "scan"]
               /\ UNCHANGED browser_semaphore
          ELSE ReturnBrowser(c, "Err")
    /\ Others("browser")

\* Url::parse(raw_url)? and the scan of the links: the first archive link or
\* hosting link is returned, or the error that there is none.
ScanLinks(c) ==
    /\ browser_calls[c].pc = "scan"
    /\ \E result \in {"Ok", "Err"} : ReturnBrowser(c, result)
    /\ Others("browser")

NextBrowser ==
    \/ \E c \in Callers : CallBrowser(c)
    \/ \E c \in Callers : AcquireBrowser(c)
    \/ \E c \in Callers : LaunchBrowser(c)
    \/ \E c \in Callers : RenderPage(c)
    \/ \E c \in Callers : ScanLinks(c)

\* The browser runs: the tasks of Callers call resolve_with_browser, each
\* once, whenever they like.
SpecBrowser == InitBrowser /\ [][NextBrowser]_vars

\* The same runs where a call that can take a step takes one in the end:
\* tokio polls a task that is woken, a free permit wakes the waiter, and
\* every request to the browser is answered or fails.
SpecBrowserFair ==
    /\ SpecBrowser
    /\ \A c \in Callers :
          /\ WF_vars(AcquireBrowser(c))
          /\ WF_vars(LaunchBrowser(c))
          /\ WF_vars(RenderPage(c))
          /\ WF_vars(ScanLinks(c))

\* ------------------------------------------------------------ resolve_url

\* A parsed url::Url: the host, the segments of the path and the query, each
\* text a sequence of tokens as it is written (`%26` is one token); no query
\* and an empty one are both <<>>.
Url(host, path, query) == [host |-> host, path |-> path, query |-> query]

\* str::split: the pieces of `s` between the separators `sep`.
RECURSIVE Split(_, _)
Split(s, sep) ==
    IF \A i \in DOMAIN s : s[i] # sep THEN <<s>>
    ELSE LET i == CHOOSE i \in DOMAIN s : s[i] = sep /\ \A j \in 1..(i - 1) : s[j] # sep
         IN  <<SubSeq(s, 1, i - 1)>> \o Split(SubSeq(s, i + 1, Len(s)), sep)

\* Url::query_pairs: the pieces between `&` that are not empty, each cut at
\* its first `=`, name and value percent-decoded with `+` for a space.
query_pairs(query) ==
    LET pieces == SelectSeq(Split(query, "&"), LAMBDA p : p # <<>>)
        decode(s) == [i \in DOMAIN s |->
                        CASE s[i] = "%26" -> "&"
                          [] s[i] = "%3D" -> "="
                          [] s[i] \in {"%20", "+"} -> " "
                          [] OTHER -> s[i]]
        name(p) == Split(p, "=")[1]
    IN  [i \in DOMAIN pieces |->
            <<decode(name(pieces[i])),
              decode(SubSeq(pieces[i], Len(name(pieces[i])) + 2, Len(pieces[i])))>>]

\* Serializer::append_pair: `name=value` is added to the query after an `&`,
\* name and value form-urlencoded.
append_pair(query, name, value) ==
    LET encode(s) == [i \in DOMAIN s |->
                        CASE s[i] = "&" -> "%26"
                          [] s[i] = "=" -> "%3D"
                          [] s[i] = " " -> "+"
                          [] OTHER -> s[i]]
    IN  (IF query = <<>> THEN <<>> ELSE query \o <<"&">>)
           \o encode(name) \o <<"=">> \o encode(value)

\* What a resolver returns: Ok(ResolvedUrl { url, original }) or Err(reason),
\* with the requests sent, the calls of resolve_with_browser and the
\* recursive calls of resolve_url it took.
Returned(ok, url, original, reason) ==
    [ok |-> ok, url |-> url, original |-> original, reason |-> reason,
     requests |-> 0, browser |-> 0, hops |-> 0]

\* A mutant of resolve_google_drive: the `id` parameter is tried before the
\* path.
resolve_google_drive_query_first(raw_url) ==
    LET path == raw_url.path
        at == {i \in 1..(Len(path) - 2) : path[i] = <<"file">> /\ path[i + 1] = <<"d">>}
        ids == SelectSeq(query_pairs(raw_url.query), LAMBDA kv : kv[1] = <<"id">>)
        file_id == IF ids # <<>> THEN ids[1][2]
                   ELSE IF at # {} THEN path[(CHOOSE i \in at : \A j \in at : i <= j) + 2]
                   ELSE <<>>
    IN  IF ids = <<>> /\ file_id = <<>>
        THEN Returned(FALSE, raw_url, raw_url, "failed to extract Google Drive file ID")
        ELSE Returned(TRUE,
                      Url("drive.google.com", <<<<"uc">>>>,
                          <<"export", "=", "download", "&", "id", "=">> \o file_id
                             \o <<"&", "confirm", "=", "t">>),
                      raw_url, None)

\* resolve_google_drive: the file ID is what follows the first `/file/d/` of
\* the path up to the next `/`, if that is not empty, else the value of the
\* first `id` parameter; it is written into the download URL as it is.
resolve_google_drive(raw_url) ==
    LET path == raw_url.path
        at == {i \in 1..(Len(path) - 2) : path[i] = <<"file">> /\ path[i + 1] = <<"d">>}
        segment == IF at = {} THEN <<>>
                   ELSE path[(CHOOSE i \in at : \A j \in at : i <= j) + 2]
        ids == SelectSeq(query_pairs(raw_url.query), LAMBDA kv : kv[1] = <<"id">>)
        file_id == IF segment # <<>> THEN segment ELSE ids[1][2]
    IN  IF segment = <<>> /\ ids = <<>>
        THEN Returned(FALSE, raw_url, raw_url, "failed to extract Google Drive file ID")
        ELSE Returned(TRUE,
                      Url("drive.google.com", <<<<"uc">>>>,
                          <<"export", "=", "download", "&", "id", "=">> \o file_id
                             \o <<"&", "confirm", "=", "t">>),
                      raw_url, None)

\* A mutant of resolve_dropbox: the query is replaced by `dl=1`.
resolve_dropbox_dl_only(raw_url) ==
    Returned(TRUE, [raw_url EXCEPT !.query = <<"dl", "=", "1">>], raw_url, None)

\* resolve_dropbox: with a `dl` parameter the query is written anew, every
\* `dl` with the value 1; without one `dl=1` is added to the query as it is.
resolve_dropbox(raw_url) ==
    LET pairs == query_pairs(raw_url.query)
        RECURSIVE written(_)
        written(n) ==
            IF n = 0 THEN <<>>
            ELSE append_pair(written(n - 1), pairs[n][1],
                             IF pairs[n][1] = <<"dl">> THEN <<"1">> ELSE pairs[n][2])
        has_dl == \E i \in DOMAIN pairs : pairs[i][1] = <<"dl">>
    IN  Returned(TRUE,
                 [raw_url EXCEPT !.query = IF has_dl THEN written(Len(pairs))
                                           ELSE append_pair(@, <<"dl">>, <<"1">>)],
                 raw_url, None)

\* `archive_extensions.iter().any(|ext| path.ends_with(ext))` on the
\* lowercased path, and `hosting_domains.iter().any(|d| host.contains(d))`.
is_archive(url) ==
    /\ url.path # <<>>
    /\ LET last == url.path[Len(url.path)]
       IN  last # <<>> /\ to_lowercase(last[Len(last)]) \in {".zip", ".rar", ".7z", ".lzh"}

is_hosting(url) ==
    \E d \in {"drive.google.com", "dropbox.com", "www.dropbox.com", "onedrive.live.com", "1drv.ms"} :
        Contains(url.host, d)

\* The links a page can carry: to an archive, to Drive with and without a
\* file ID, to Dropbox, to a provider that is not supported, to a page of no
\* interest and, on pages fewer than MaxHops hops away from the input, to a
\* page of a hosting domain that has to be scraped itself.
Links(hops) ==
    {Url("example.com", <<<<"files">>, <<"f", ".ZIP">>>>, <<>>),
     Url("drive.google.com", <<<<"file">>, <<"d">>, <<"ABC123">>, <<"view">>>>, <<>>),
     Url("drive.google.com", <<<<"drive">>, <<"folders">>>>, <<>>),
     Url("www.dropbox.com", <<<<"s">>, <<"x">>, <<"f", ".zip">>>>, <<"dl", "=", "0">>),
     Url("mega.nz", <<<<"file">>, <<"x">>>>, <<>>),
     Url("example.com", <<<<"about">>>>, <<>>)}
    \cup (IF hops < MaxHops
          THEN {Url("onedrive.live.com", <<<<"redir">>>>, <<"resid", "=", "x">>)}
          ELSE {})

RECURSIVE resolve_url(_, _)

\* find_download_from_candidates: the first candidate that is an archive
\* link is the result; the first that is on a hosting domain is resolved by
\* resolve_url and what that returns is the result; {} stands for None.
find_download_from_candidates(candidates, raw_url, hops) ==
    LET accepted == {i \in DOMAIN candidates :
                        is_archive(candidates[i]) \/ is_hosting(candidates[i])}
        candidate == candidates[CHOOSE i \in accepted : \A j \in accepted : i <= j]
    IN  IF accepted = {} THEN {}
        ELSE IF is_archive(candidate) THEN {Returned(TRUE, candidate, raw_url, None)}
        ELSE {[r EXCEPT !.hops = @ + 1] : r \in resolve_url(candidate, hops + 1)}

\* resolve_manbow, resolve_venue_bmssearch and resolve_generic: the page is
\* fetched and its links are the candidates; with no accepted candidate
\* resolve_manbow and resolve_generic go to resolve_with_browser, which
\* yields a link of the rendered page or fails.  A failure is an error but
\* for resolve_generic, which then passes the URL through, as it does when
\* the request fails or the response is no HTML.
resolve_page(raw_url, hops) ==
    LET generic == raw_url.host \notin {"manbow.nothing.sh", "venue.bmssearch.net"}
        passed == Returned(TRUE, raw_url, raw_url, None)
        failed(reason) == Returned(FALSE, raw_url, raw_url, reason)
        pages == UNION {[1..n -> Links(hops)] : n \in 0..MaxLinks}
        rendered == {Returned(TRUE, l, raw_url, None) :
                        l \in {k \in Links(hops) : is_archive(k) \/ is_hosting(k)}}
                    \cup {IF generic THEN passed ELSE failed("no download link found on manbow page")}
        scraped(page) ==
            LET found == find_download_from_candidates(page, raw_url, hops)
            IN  IF found # {} THEN found
                ELSE IF raw_url.host = "venue.bmssearch.net"
                THEN {failed("no download link found on venue.bmssearch.net page")}
                ELSE {[r EXCEPT !.browser = @ + 1] : r \in rendered}
    IN  {[r EXCEPT !.requests = @ + 1] :
            r \in {IF generic THEN passed ELSE failed("error sending request"),
                   failed("error decoding response body")}
                  \cup UNION {scraped(page) : page \in pages}}

\* A mutant of resolve_url: a mega.nz URL is treated as any unknown host.
resolve_url_mega_scraped(raw_url, hops) ==
    CASE raw_url.host = "drive.google.com" -> {resolve_google_drive(raw_url)}
      [] raw_url.host \in {"dropbox.com", "www.dropbox.com", "dl.dropboxusercontent.com"} ->
            {resolve_dropbox(raw_url)}
      [] OTHER -> resolve_page(raw_url, hops)

\* resolve_url: the dispatch on the host; an unknown host whose path ends in
\* an archive extension passes through.  The results it can return.
resolve_url(raw_url, hops) ==
    CASE raw_url.host = "drive.google.com" -> {resolve_google_drive(raw_url)}
      [] raw_url.host \in {"dropbox.com", "www.dropbox.com", "dl.dropboxusercontent.com"} ->
            {resolve_dropbox(raw_url)}
      [] raw_url.host \in {"manbow.nothing.sh", "venue.bmssearch.net"} ->
            resolve_page(raw_url, hops)
      [] raw_url.host = "mega.nz" ->
            {Returned(FALSE, raw_url, raw_url, "mega.nz is not supported (encryption API required)")}
      [] OTHER ->
            IF is_archive(raw_url) THEN {Returned(TRUE, raw_url, raw_url, None)}
            ELSE resolve_page(raw_url, hops)

\* The URLs of the resolver runs: Drive URLs with the file ID in the path, in
\* the query, in both and in neither, Dropbox URLs of every host with
\* MaxPairs parameters at most, and URLs of every other arm of resolve_url.
Urls ==
    LET ids == {<<"ABC123">>, <<"a", "%26", "b">>, <<"a", "+", "b">>}
        params == {<<"dl", "=", "0">>, <<"dl", "=", "1">>, <<"rlkey", "=", "k">>,
                   <<"st", "=", "b", "%20", "c">>}
        RECURSIVE joined(_)
        joined(ps) == IF ps = <<>> THEN <<>>
                      ELSE IF Len(ps) = 1 THEN ps[1]
                      ELSE ps[1] \o <<"&">> \o joined(Tail(ps))
    IN  {Url("drive.google.com", <<<<"file">>, <<"d">>, id, <<"view">>>>, q) :
            id \in ids \cup {<<>>}, q \in {<<>>, <<"id", "=", "XYZ">>, <<"usp", "=", "sharing">>}}
        \cup {Url("drive.google.com", <<<<"open">>>>, <<"id", "=">> \o id) : id \in ids}
        \cup {Url("drive.google.com", <<<<"drive">>, <<"folders">>>>, <<>>)}
        \cup {Url(h, <<<<"s">>, <<"x">>, <<"f", ".zip">>>>, joined(ps)) :
                h \in {"dropbox.com", "www.dropbox.com", "dl.dropboxusercontent.com"},
                ps \in UNION {[1..n -> params] : n \in 0..MaxPairs}}
        \cup {Url("mega.nz", <<<<"file">>, <<"x">>>>, <<>>),
              Url("manbow.nothing.sh", <<<<"event">>>>, <<"num", "=", "1">>),
              Url("venue.bmssearch.net", <<<<"bmsshuin3">>, <<"75">>>>, <<>>),
              Url("example.com", <<<<"files">>, <<"f", ".ZIP">>>>, <<>>),
              Url("example.com", <<<<"page">>>>, <<>>)}

\* A resolve task before and after resolve_url: `calls` counts the calls of
\* resolve_url on the input, `first` is the URL the first of them was given.
ResolveResult(pc, r, calls, first) ==
    [pc |-> pc, url |-> r.url, original |-> r.original, reason |-> r.reason,
     requests |-> r.requests, browser |-> r.browser, hops |-> r.hops,
     calls |-> calls, first |-> first]

InitResolver ==
    /\ InitWith(0, "simple", {1})
    /\ AtRest("extraction") /\ AtRest("browser") /\ AtRest("filename") /\ AtRest("fanout")
    /\ task_url \in Urls
    /\ resolve_result = ResolveResult("resolving", Returned(FALSE, task_url, task_url, None), 0, task_url)

\* The body of a resolve task: resolve_url(&client, &task.url), and the
\* ResolveResult made of what it returns.
ResolveTask ==
    /\ resolve_result.pc = "resolving"
    /\ \E r \in resolve_url(task_url, 0) :
          resolve_result' =
             ResolveResult(IF r.ok THEN "Resolved" ELSE "Skipped",
                           IF r.ok THEN r ELSE [r EXCEPT !.url = task_url],
                           resolve_result.calls + 1, resolve_result.first)
    /\ UNCHANGED task_url /\ Others("resolver")

\* resolve_url is called on the URL a resolution has returned.
ResolveAgain ==
    /\ resolve_result.pc = "Resolved" /\ resolve_result.calls = 1
    /\ task_url' = resolve_result.url
    /\ resolve_result' =
          ResolveResult("resolving", Returned(FALSE, task_url', task_url', None), 1,
                        resolve_result.first)
    /\ Others("resolver")

NextResolver == ResolveTask \/ ResolveAgain

\* The resolver runs: resolve_url on one URL of Urls, and once more on what
\* it returned.
SpecResolver == InitResolver /\ [][NextResolver]_vars

\* ------------------------------------------- resolve_url, call by call

\* A candidate found on a page: its place is its index in the page, `kind`
\* says whether it is the value of an embedded "downloadURL" or the href of
\* a link, resolved against the page's URL.
Item(kind, url) == [kind |-> kind, url |-> url]

\* The URLs a page can carry: an archive, a Drive file and a Drive folder, a
\* page of no interest, two pages of hosting domains that have to be scraped
\* themselves, and a relative path (host None: Url::parse fails on it).
ScrapeLinks ==
    {Url("example.com", <<<<"files">>, <<"f", ".ZIP">>>>, <<>>),
     Url("drive.google.com", <<<<"file">>, <<"d">>, <<"ABC123">>, <<"view">>>>, <<>>),
     Url("drive.google.com", <<<<"drive">>, <<"folders">>>>, <<>>),
     Url("example.com", <<<<"about">>>>, <<>>),
     Url("onedrive.live.com", <<<<"redir">>>>, <<"resid", "=", "x">>),
     Url("1drv.ms", <<<<"u">>, <<"s">>>>, <<>>),
     Url(None, <<<<"files">>, <<"g", ".zip">>>>, <<>>)}

\* What a page can hold: hrefs are absolute once joined to the base URL.
Items ==
    {Item("href", u) : u \in {l \in ScrapeLinks : l.host # None}}
    \cup {Item("json", u) : u \in {l \in ScrapeLinks :
                                      l.host \in {None, "example.com", "onedrive.live.com"}}}

ScrapePages == UNION {[1..n -> Items] : n \in 0..MaxCandidates}

\* The places of `page` whose item is of `kind`, in document order.
RECURSIVE PlacesOf(_, _, _)
PlacesOf(page, kind, from) ==
    IF from > Len(page) THEN <<>>
    ELSE (IF page[from].kind = kind THEN <<from>> ELSE <<>>) \o PlacesOf(page, kind, from + 1)

\* extract_json_download_urls and extract_links_from_html, as places.
extract_json_download_urls(page) == PlacesOf(page, "json", 1)

extract_links_from_html(page) == PlacesOf(page, "href", 1)

\* A mutant of candidates_of: the candidates of a venue.bmssearch.net page
\* are taken in document order.
candidates_in_document_order(host, page) ==
    IF host = "venue.bmssearch.net" THEN [i \in DOMAIN page |-> i]
    ELSE extract_links_from_html(page)

\* The candidates the three scraping resolvers hand to
\* find_download_from_candidates: resolve_venue_bmssearch the embedded URLs
\* and then the links, the others the links.
candidates_of(host, page) ==
    IF host = "venue.bmssearch.net"
    THEN extract_json_download_urls(page) \o extract_links_from_html(page)
    ELSE extract_links_from_html(page)

\* `is_archive` of find_download_from_candidates: on the path of a candidate
\* that parses, on the whole text of one that does not.
candidate_is_archive(c) ==
    IF c.host # None THEN is_archive(c)
    ELSE LET text == IF c.query # <<>> THEN c.query ELSE c.path[Len(c.path)]
         IN  to_lowercase(text[Len(text)]) \in {".zip", ".rar", ".7z", ".lzh"}

\* The hosting-domain test of find_download_from_candidates, on a candidate
\* that parses.
candidate_is_hosting(c) == c.host # None /\ is_hosting(c)

\* A call of resolve_url under way: `input` is the URL of the task, `hops`
\* the depth of the call (counted up to MaxDepth), `fetch` how the request
\* of the call ended, `page` what it brought, `chosen` the place of the
\* candidate find_download_from_candidates returned on, `requests` and
\* `browser` the requests sent and the resolve_with_browser calls made
\* (counted up to MaxDepth + 1), `rendered` what the last of these came to,
\* `ret` what the resolution returned.
Scrape(pc, input, hops, fetch, page, chosen, requests, browser, rendered, ret) ==
    [pc |-> pc, input |-> input, hops |-> hops, fetch |-> fetch, page |-> page,
     chosen |-> chosen, requests |-> requests, browser |-> browser,
     rendered |-> rendered, ret |-> ret]

Counted(n) == IF n <= MaxDepth THEN n + 1 ELSE n

ScrapeUrls ==
    {Url("manbow.nothing.sh", <<<<"event">>>>, <<"num", "=", "1">>),
     Url("venue.bmssearch.net", <<<<"bmsshuin3">>, <<"75">>>>, <<>>),
     Url("example.com", <<<<"files">>, <<"f", ".ZIP">>>>, <<>>),
     Url("example.com", <<<<"page">>>>, <<>>),
     Url("onedrive.live.com", <<<<"redir">>>>, <<"resid", "=", "x">>),
     Url("mega.nz", <<<<"file">>, <<"x">>>>, <<>>),
     Url("www.dropbox.com", <<<<"s">>, <<"x">>, <<"f", ".zip">>>>, <<"dl", "=", "0">>)}

InitScrape ==
    /\ InitWith(0, "simple", {1})
    /\ AtRest("extraction") /\ AtRest("browser") /\ AtRest("filename") /\ AtRest("fanout")
    /\ task_url \in ScrapeUrls
    /\ resolve_result = Scrape("resolve_url", task_url, 0, "none", <<>>, {}, 0, 0, "none", {})

\* The resolution returns r from the call it is in.
ScrapeReturns(s, r) == [s EXCEPT !.pc = "returned", !.ret = {r}]

\* resolve_url on task_url: the rewrite rules and mega.nz return at once,
\* as does an unknown host with an archive path; resolve_manbow,
\* resolve_venue_bmssearch and resolve_generic send their request, which
\* fails, or (resolve_generic) brings something that is no HTML, or brings
\* a body that cannot be read, or brings a page.
CallResolveUrl ==
    /\ resolve_result.pc = "resolve_url"
    /\ LET s == [resolve_result EXCEPT !.fetch = "none", !.page = <<>>, !.chosen = {},
                                       !.rendered = "none"]
           raw_url == task_url
           generic == raw_url.host \notin {"manbow.nothing.sh", "venue.bmssearch.net"}
           passed == Returned(TRUE, raw_url, raw_url, None)
           failed(reason) == Returned(FALSE, raw_url, raw_url, reason)
           sent == [s EXCEPT !.requests = Counted(@)]
       IN  CASE raw_url.host = "drive.google.com" ->
                  resolve_result' = ScrapeReturns(s, resolve_google_drive(raw_url))
             [] raw_url.host \in {"dropbox.com", "www.dropbox.com", "dl.dropboxusercontent.com"} ->
                  resolve_result' = ScrapeReturns(s, resolve_dropbox(raw_url))
             [] raw_url.host = "mega.nz" ->
                  resolve_result' =
                     ScrapeReturns(s, failed("mega.nz is not supported (encryption API required)"))
             [] generic /\ is_archive(raw_url) ->
                  resolve_result' = ScrapeReturns(s, passed)
             [] OTHER ->
                  \E o \in {"send_error", "text_error", "html"}
                           \cup (IF generic THEN {"not_html"} ELSE {}) :
                     CASE o = "send_error" ->
                            resolve_result' =
                               ScrapeReturns([sent EXCEPT !.fetch = o],
                                             IF generic THEN passed
                                             ELSE failed("error sending request"))
                       [] o = "not_html" ->
                            resolve_result' = ScrapeReturns([sent EXCEPT !.fetch = o], passed)
                       [] o = "text_error" ->
                            resolve_result' =
                               ScrapeReturns([sent EXCEPT !.fetch = o],
                                             failed("error decoding response body"))
                       [] OTHER ->
                            \E page \in ScrapePages :
                               resolve_result' =
                                  [sent EXCEPT !.pc = "find_download_from_candidates",
                                               !.fetch = o, !.page = page]
    /\ UNCHANGED task_url /\ Others("resolver")

\* find_download_from_candidates on the candidates of the page: the first
\* candidate that is an archive link is returned; on the first that is on
\* a hosting domain resolve_url is called, and what that call returns is
\* returned; with neither, resolve_venue_bmssearch fails and the others go
\* on to the browser.
FindDownloadFromCandidates ==
    /\ resolve_result.pc = "find_download_from_candidates"
    /\ LET s == resolve_result
           page == s.page
           candidates == candidates_of(task_url.host, page)
           accepted == {i \in DOMAIN candidates :
                           \/ candidate_is_archive(page[candidates[i]].url)
                           \/ candidate_is_hosting(page[candidates[i]].url)}
           place == candidates[CHOOSE i \in accepted : \A j \in accepted : i <= j]
           candidate == page[place].url
       IN  IF accepted = {}
           THEN /\ resolve_result' =
                     IF task_url.host = "venue.bmssearch.net"
                     THEN ScrapeReturns(s, Returned(FALSE, task_url, task_url,
                                           "no download link found on venue.bmssearch.net page"))
                     ELSE [s EXCEPT !.pc = "resolve_with_browser"]
                /\ UNCHANGED task_url
           ELSE IF candidate_is_archive(candidate)
           THEN /\ resolve_result' =
                     ScrapeReturns([s EXCEPT !.chosen = {place}],
                                   Returned(TRUE, candidate, task_url, None))
                /\ UNCHANGED task_url
           ELSE /\ resolve_result' =
                     [s EXCEPT !.pc = "resolve_url", !.chosen = {place},
                               !.hops = IF @ < MaxDepth THEN @ + 1 ELSE @]
                /\ task_url' = candidate
    /\ Others("resolver")

\* A mutant of browser_failed: resolve_generic fails as resolve_manbow does.
browser_failed_is_error(raw_url) ==
    Returned(FALSE, raw_url, raw_url, "no download link found on manbow page")

\* The `Err(e)` arm of `match browser::resolve_with_browser(raw_url).await`:
\* resolve_manbow fails, resolve_generic passes the URL through.
browser_failed(raw_url) ==
    IF raw_url.host = "manbow.nothing.sh"
    THEN Returned(FALSE, raw_url, raw_url, "no download link found on manbow page")
    ELSE Returned(TRUE, raw_url, raw_url, None)

\* browser::resolve_with_browser(raw_url) of resolve_manbow and
\* resolve_generic: it returns a link of the rendered page that is an
\* archive or on a hosting domain, or it fails.
ResolveWithBrowser ==
    /\ resolve_result.pc = "resolve_with_browser"
    /\ LET s == [resolve_result EXCEPT !.browser = Counted(@)]
           links == {l \in ScrapeLinks : l.host # None /\ (is_archive(l) \/ is_hosting(l))}
       IN  \/ \E l \in links :
                resolve_result' = ScrapeReturns([s EXCEPT !.rendered = "Ok"],
                                                Returned(TRUE, l, task_url, None))
           \/ resolve_result' = ScrapeReturns([s EXCEPT !.rendered = "Err"],
                                              browser_failed(task_url))
    /\ UNCHANGED task_url /\ Others("resolver")

NextScrape == CallResolveUrl \/ FindDownloadFromCandidates \/ ResolveWithBrowser

\* One resolution, call by call: resolve_url on one URL of ScrapeUrls.
SpecScrape == InitScrape /\ [][NextScrape]_vars

\* The same, where a resolution that can take a step takes one.
SpecScrapeFair == SpecScrape /\ WF_vars(NextScrape)

\* ------------------------------------------- save_response: the filename

\* Text is a sequence of tokens, a token being one character or a run of
\* characters that no operation looks into.

\* str::find: the index of the first occurrence of `pat` in `s`, 0 for None.
find(s, pat) ==
    LET at == {i \in 1..(Len(s) - Len(pat) + 1) : SubSeq(s, i, i + Len(pat) - 1) = pat}
    IN  IF at = {} THEN 0 ELSE CHOOSE i \in at : \A j \in at : i <= j

\* str::trim: the text without its leading and trailing white space.
RECURSIVE trim(_)
trim(s) ==
    IF s # <<>> /\ s[1] = " " THEN trim(Tail(s))
    ELSE IF s # <<>> /\ s[Len(s)] = " " THEN trim(SubSeq(s, 1, Len(s) - 1))
    ELSE s

\* urlencoding::decode: every %XX becomes its byte and the bytes are read as
\* UTF-8, which %FF is not; {} stands for Err, {text} for Ok(text).
decode(s) ==
    IF \E i \in DOMAIN s : s[i] = "%FF" THEN {}
    ELSE {[i \in DOMAIN s |->
              CASE s[i] = "%2F" -> "/"
                [] s[i] = "%20" -> " "
                [] s[i] = "%3A" -> ":"
                [] OTHER -> s[i]]}

\* A mutant of sanitize_filename: the path separator is kept.
sanitize_filename_keeps_separator(name) ==
    [i \in DOMAIN name |->
        IF name[i] \in {"\\", ":", "*", "?", "\"", "<", ">", "|", "NUL"} THEN "_" ELSE name[i]]

\* sanitize_filename: each of / \ : * ? " < > | and NUL becomes _.
sanitize_filename(name) ==
    [i \in DOMAIN name |->
        IF name[i] \in {"/", "\\", ":", "*", "?", "\"", "<", ">", "|", "NUL"} THEN "_" ELSE name[i]]

\* parse_content_disposition: the value of the first `filename*=` when it
\* starts with UTF-8'' or utf-8'', up to the next `;`, trimmed and decoded;
\* else the value of the first `filename=` without its leading quotes, up to
\* the next quote or else the next `;`, trimmed, when it is not empty.
\* {} stands for None, {name} for Some(name).
parse_content_disposition(header) ==
    LET pos == find(header, <<"filename", "*", "=">>)
        rest == SubSeq(header, pos + 3, Len(header))
        value == Tail(rest)
        semi == find(value, <<";">>)
        encoded == trim(SubSeq(value, 1, IF semi = 0 THEN Len(value) ELSE semi - 1))
        pos2 == find(header, <<"filename", "=">>)
        after == SubSeq(header, pos2 + 2, Len(header))
        quotes == CHOOSE k \in 0..Len(after) :
                     /\ \A j \in 1..k : after[j] = "\""
                     /\ k = Len(after) \/ after[k + 1] # "\""
        rest2 == SubSeq(after, quotes + 1, Len(after))
        quote == find(rest2, <<"\"">>)
        semi2 == find(rest2, <<";">>)
        end == IF quote # 0 THEN quote - 1 ELSE IF semi2 # 0 THEN semi2 - 1 ELSE Len(rest2)
        name == trim(SubSeq(rest2, 1, end))
    IN  IF pos # 0 /\ rest # <<>> /\ rest[1] \in {"UTF-8''", "utf-8''"} /\ decode(encoded) # {}
        THEN decode(encoded)
        ELSE IF pos2 # 0 /\ name # <<>> THEN {name}
        ELSE {}

\* extract_filename: the name of the Content-Disposition header, when the
\* header is there, is visible ASCII (HeaderValue::to_str) and holds a name;
\* else the last segment of the path of the response URL, decoded, when it
\* is not empty.  The name is sanitized.  {} stands for None.
extract_filename(resp) ==
    LET cd_str == IF \E i \in DOMAIN resp.content_disposition :
                        resp.content_disposition[i] = "é"
                  THEN <<>> ELSE resp.content_disposition
        fname == parse_content_disposition(cd_str)
        segment == resp.path[Len(resp.path)]
    IN  IF fname # {} THEN {sanitize_filename(n) : n \in fname}
        ELSE IF segment = <<>> THEN {}
        ELSE {sanitize_filename(n) : n \in decode(segment)}

\* sanitize_dir_name: the same characters become _, and the result is
\* trimmed.
sanitize_dir_name(name) ==
    trim([i \in DOMAIN name |->
             IF name[i] \in {"/", "\\", ":", "*", "?", "\"", "<", ">", "|", "NUL"}
             THEN "_" ELSE name[i]])

\* make_dir_name: `{symbol}{level}_{title}`, sanitized; a missing level is
\* "_" and a missing title "unknown".
make_dir_name(entry, symbol) ==
    LET level == IF entry.level = {} THEN <<"_">> ELSE CHOOSE l \in entry.level : TRUE
        title == IF entry.title = {} THEN <<"unknown">> ELSE CHOOSE t \in entry.title : TRUE
    IN  sanitize_dir_name(symbol \o level \o <<"_">> \o title)

\* The parameters a Content-Disposition header can carry: the extended
\* filename with a charset and a percent-encoded value, the plain filename,
\* quoted or not, and a parameter that is no filename.
Params ==
    {[kind |-> "filename*", charset |-> c[1], value |-> c[2], quoted |-> FALSE] :
        c \in {<<"UTF-8''", <<"a", ".zip">>>>, <<"UTF-8''", <<"a", "%2F", "b", ".zip">>>>,
               <<"UTF-8''", <<>>>>, <<"UTF-8''", <<"%FF">>>>,
               <<"utf-8''", <<"a", "%20", "b", ".zip">>>>, <<"ISO-8859-1''", <<"a", ".zip">>>>}}
    \cup {[kind |-> "filename", charset |-> "", value |-> v, quoted |-> TRUE] :
            v \in {<<"b", ".zip">>, <<"b", ":", "c", ".zip">>, <<"é", ".zip">>, <<>>,
                   <<"..">>}}
    \cup {[kind |-> "filename", charset |-> "", value |-> <<"b", ".zip">>, quoted |-> FALSE],
          [kind |-> "size", charset |-> "", value |-> <<"1">>, quoted |-> FALSE]}

\* The header of these parameters as the server sends it, <<>> when it sends
\* none: `attachment; filename="b.zip"; filename*=UTF-8''a.zip`.
RECURSIVE Header(_)
Header(params) ==
    IF params = <<>> THEN <<>>
    ELSE LET p == params[Len(params)]
             before == SubSeq(params, 1, Len(params) - 1)
             quote == IF p.quoted THEN <<"\"">> ELSE <<>>
         IN  (IF before = <<>> THEN <<"attachment">> ELSE Header(before))
             \o <<";", " ">>
             \o (IF p.kind = "filename*" THEN <<"filename", "*", "=", p.charset>>
                 ELSE <<p.kind, "=">>)
             \o quote \o p.value \o quote

\* The responses save_response is handed: a header of MaxParams parameters
\* at most, each kind once, and the path of the final URL, by segments.
SavedResponses ==
    LET lists == UNION {[1..n -> Params] : n \in 0..MaxParams}
        paths == {<<<<"files">>, <<"u", ".zip">>>>, <<<<"files">>, <<>>>>, <<<<>>>>,
                  <<<<"u", "%2F", "v", ".zip">>>>, <<<<"dl">>, <<"%FF">>>>}
    IN  {[content_disposition |-> Header(ps), path |-> path, params |-> ps] :
            ps \in {l \in lists : \A i, j \in DOMAIN l : l[i].kind = l[j].kind => i = j},
            path \in paths}

\* The fallback names main gives its tasks: `{dir_name}.zip` for the base
\* download and `{dir_name}_diff{i}.zip` for a diff download.
FallbackNames ==
    {make_dir_name([level |-> l, title |-> t], <<"st">>) \o suffix :
        l \in {{}, {<<"1">>}},
        t \in {{}, {<<"t">>}, {<<"t", "/", "x">>}, {<<"t", "?", " ">>}},
        suffix \in {<<".zip">>, <<"_diff", "0", ".zip">>}}

InitFilename ==
    /\ InitWith(0, "simple", {1})
    /\ AtRest("extraction") /\ AtRest("browser") /\ AtRest("resolver") /\ AtRest("fanout")
    /\ \E resp \in SavedResponses, fallback_name \in FallbackNames :
          saved = [pc |-> "response", resp |-> resp, fallback_name |-> fallback_name,
                   filename |-> <<>>, tmp |-> <<>>]

\* save_response, up to File::create: `filename` is what extract_filename
\* finds or else the fallback name, and `tmp` is `.{filename}.tmp`.
ChooseFilename ==
    /\ saved.pc = "response"
    /\ LET found == extract_filename(saved.resp)
           filename == IF found = {} THEN saved.fallback_name ELSE CHOOSE n \in found : TRUE
       IN  saved' = [saved EXCEPT !.pc = "create_tmp", !.filename = filename,
                                  !.tmp = <<".">> \o filename \o <<".tmp">>]
    /\ Others("filename")

\* The filename runs: save_response names the file of one response.
SpecFilename == InitFilename /\ [][ChooseFilename]_vars

\* ------------------------------------------- main: the extraction fan-out

\* The archives main can be handed as Success paths: in the output directory
\* of a group, by stem and extension; t<n>.zip are the fallback names.
Archived ==
    {[path |-> OutputDir \o "/" \o s \o e, parent |-> OutputDir, stem |-> s] :
        s \in {"a", "b"} \cup {"t" \o ToString(t) : t \in 1..MostTasks},
        e \in {".zip", ".rar"}}

\* extract_archive's directory for an archive: `parent.join(".{stem}_extracted")`,
\* the stem being the file name without its last extension.
extract_dir_of(path) ==
    LET a == CHOOSE x \in Archived : x.path = path
    IN  a.parent \o "/." \o a.stem \o "_extracted"

\* main's counters and the lines it collects for the log and the summary;
\* `failed_log` is the file failed.log ({}: there is none, else its lines)
\* and `printed` what the summary has printed ({}: nothing yet).
NoSummary ==
    [success_count |-> 0, skip_count |-> 0, fail_count |-> 0,
     failed_entries |-> <<>>, skipped_entries |-> <<>>, failed_log |-> {},
     printed |-> {}]

\* The outcome lists execute_downloads can have returned: MaxResults
\* outcomes at most, Success with the path of a saved archive.
ResultLists ==
    LET outcomes == {Success(0, a.path) : a \in {x \in Archived : x.stem \in {"a", "b"}}}
                    \cup {Skipped(0, "https://mega.nz/file/x", "mega.nz is not supported"),
                          Failed(0, "https://example.com/t1", "HTTP status client error")}
    IN  UNION {[1..n -> outcomes] : n \in 0..MaxResults}

\* execute_downloads has returned `results`: its tasks and semaphores are
\* gone.
InitFanOut ==
    /\ server = "simple" /\ tasks = <<>> /\ jobs = 1
    /\ resolve_semaphore = 0 /\ resolve_handles = <<>> /\ resolved_tasks = <<>>
    /\ download_semaphore = 0 /\ download_handles = <<>>
    /\ dirs = {} /\ files = EmptyMap /\ inodes = EmptyMap
    /\ AtRest("extraction") /\ AtRest("browser") /\ AtRest("resolver") /\ AtRest("filename")
    /\ results \in ResultLists
    /\ main = [pc |-> "done", i |-> 1]
    /\ extract_semaphore \in 1..MaxParallelism
    /\ extract_handles = <<>>
    /\ summary = NoSummary

ManagerDone ==
    UNCHANGED <<server, tasks, jobs, resolve_semaphore, resolve_handles, resolved_tasks,
                results, download_semaphore, download_handles, dirs, files, inodes>>

\* One turn of `for result in results`: for a Success main waits for a permit
\* of extract_semaphore and spawns the blocking task that owns it; for the
\* others it counts and keeps the line.  After the last turn it goes on to
\* await the handles.
FanOut ==
    /\ main.pc = "done"
    /\ IF main.i > Len(results)
       THEN /\ main' = [pc |-> "join_extract", i |-> 1]
            /\ UNCHANGED <<extract_semaphore, extract_handles, summary>>
       ELSE LET result == results[main.i]
            IN  /\ main' = [main EXCEPT !.i = @ + 1]
                /\ CASE result.kind = "Success" ->
                          /\ extract_semaphore > 0
                          /\ extract_semaphore' = extract_semaphore - 1
                          /\ extract_handles' =
                                Append(extract_handles,
                                       [pc |-> "extract_archive", path |-> result.text,
                                        permit |-> TRUE, result |-> "none"])
                          /\ summary' = [summary EXCEPT !.success_count = @ + 1]
                     [] result.kind = "Skipped" ->
                          /\ summary' = [summary EXCEPT
                                            !.skip_count = @ + 1,
                                            !.skipped_entries = Append(@, <<result.url, result.text>>)]
                          /\ UNCHANGED <<extract_semaphore, extract_handles>>
                     [] OTHER ->
                          /\ summary' = [summary EXCEPT
                                            !.fail_count = @ + 1,
                                            !.failed_entries = Append(@, <<result.url, result.text>>)]
                          /\ UNCHANGED <<extract_semaphore, extract_handles>>
    /\ ManagerDone /\ Others("fanout")

\* The blocking task: extract_and_normalize goes through extract_archive,
\* flatten_single_subdirs, the relocation and the clean-up; an error of one
\* of the first three ends it at once and is logged.  When the closure ends
\* the permit is dropped.
ExtractAndNormalize(k) ==
    /\ extract_handles[k].pc \in {"extract_archive", "flatten_single_subdirs", "relocate", "clean_up"}
    /\ \E o \in {"ok", "err"} :
          LET h == extract_handles[k]
              returned == o = "err" \/ h.pc = "clean_up"
          IN  /\ o = "err" => h.pc # "clean_up"
              /\ extract_handles' =
                    [extract_handles EXCEPT ![k] =
                        IF returned
                        THEN [h EXCEPT !.pc = "returned", !.permit = FALSE,
                                       !.result = IF o = "ok" THEN "Ok" ELSE "Err"]
                        ELSE [h EXCEPT !.pc =
                                 CASE @ = "extract_archive" -> "flatten_single_subdirs"
                                   [] @ = "flatten_single_subdirs" -> "relocate"
                                   [] OTHER -> "clean_up"]]
              /\ extract_semaphore' = IF returned THEN extract_semaphore + 1 ELSE extract_semaphore
    /\ UNCHANGED <<main, summary>>
    /\ ManagerDone /\ Others("fanout")

\* A mutant of JoinExtract: main goes on only past an extraction that
\* returned Ok.
JoinExtractStopsOnError ==
    /\ main.pc = "join_extract"
    /\ IF main.i > Len(extract_handles)
       THEN /\ main' = [pc |-> "normalize_diffs", i |-> 1]
            /\ UNCHANGED extract_handles
       ELSE /\ extract_handles[main.i].pc = "returned"
            /\ extract_handles[main.i].result = "Ok"
            /\ extract_handles' = [extract_handles EXCEPT ![main.i].pc = "joined"]
            /\ main' = [main EXCEPT !.i = @ + 1]
    /\ UNCHANGED <<extract_semaphore, summary>>
    /\ ManagerDone /\ Others("fanout")

\* One turn of `for handle in extract_handles { let _ = handle.await; }`.
JoinExtract ==
    /\ main.pc = "join_extract"
    /\ IF main.i > Len(extract_handles)
       THEN /\ main' = [pc |-> "normalize_diffs", i |-> 1]
            /\ UNCHANGED extract_handles
       ELSE /\ extract_handles[main.i].pc = "returned"
            /\ extract_handles' = [extract_handles EXCEPT ![main.i].pc = "joined"]
            /\ main' = [main EXCEPT !.i = @ + 1]
    /\ UNCHANGED <<extract_semaphore, summary>>
    /\ ManagerDone /\ Others("fanout")

\* The diff normalization, `for dir_name in groups.keys() {..}`: the errors
\* of copy_diff_files and remove_dir_all are dropped, an error of
\* `std::fs::read_dir(&entry_dir)?` ends main.  What it does to the files
\* is no part of these runs.
NormalizeDiffs ==
    /\ main.pc = "normalize_diffs"
    /\ \E o \in {"ok", "err"} :
          main' = [main EXCEPT !.pc = IF o = "ok" THEN "write_failed_log" ELSE "read_dir_failed"]
    /\ UNCHANGED <<extract_semaphore, extract_handles, summary>>
    /\ ManagerDone /\ Others("fanout")

\* `if !failed_entries.is_empty() { tokio::fs::write(&failed_log,
\* failed_entries.join("\n")).await?; }`.
WriteFailedLog ==
    /\ main.pc = "write_failed_log"
    /\ IF summary.failed_entries = <<>>
       THEN main' = [main EXCEPT !.pc = "print_summary"] /\ UNCHANGED summary
       ELSE \E o \in {"ok", "err"} :
               IF o = "ok"
               THEN /\ summary' = [summary EXCEPT !.failed_log = {summary.failed_entries}]
                    /\ main' = [main EXCEPT !.pc = "print_summary"]
               ELSE /\ main' = [main EXCEPT !.pc = "write_failed"]
                    /\ UNCHANGED summary
    /\ UNCHANGED <<extract_semaphore, extract_handles>>
    /\ ManagerDone /\ Others("fanout")

\* The summary: the three counters, then the failed and the skipped
\* entries, and main returns Ok.
PrintSummary ==
    /\ main.pc = "print_summary"
    /\ summary' = [summary EXCEPT !.printed =
                      {[success |-> summary.success_count, skipped |-> summary.skip_count,
                        failed |-> summary.fail_count,
                        failed_entries |-> summary.failed_entries,
                        skipped_entries |-> summary.skipped_entries]}]
    /\ main' = [main EXCEPT !.pc = "summary"]
    /\ UNCHANGED <<extract_semaphore, extract_handles>>
    /\ ManagerDone /\ Others("fanout")

NextFanOut ==
    \/ FanOut
    \/ \E k \in DOMAIN extract_handles : ExtractAndNormalize(k)
    \/ JoinExtract
    \/ NormalizeDiffs
    \/ WriteFailedLog
    \/ PrintSummary

\* The fan-out runs: main goes through a list of outcomes.
SpecFanOut == InitFanOut /\ [][NextFanOut]_vars

\* The same, where main and the blocking tasks go on while they can.
SpecFanOutFair == SpecFanOut /\ WF_vars(NextFanOut)

\* ---------------------------------------------- the gates of a whole run

\* A run of main from execute_downloads to the last extraction:
\* NumGateTasks tasks, each of which can call resolve_with_browser once
\* while it resolves and once while it downloads.
InitGates ==
    /\ InitWith(NumGateTasks, "simple", {1})
    /\ AtRest("extraction") /\ AtRest("resolver") /\ AtRest("filename")
    /\ browser_semaphore = 1
    /\ browser_calls =
          [c \in {[phase |-> p, task |-> t] : p \in {"resolve", "download"}, t \in Tasks} |->
              BrowserCall("idle", FALSE, FALSE, None)]
    /\ extract_semaphore = MaxParallelism
    /\ extract_handles = <<>>
    /\ summary = NoSummary

\* The call of resolve_with_browser task t makes in a phase.
CallOf(phase, t) == browser_calls[[phase |-> phase, task |-> t]]

\* A mutant of ResolveCallsBrowser: the browser is called before the task
\* has its permit of resolve_semaphore.
BrowserBeforeResolvePermit(t) ==
    /\ resolve_handles[t].pc = "waiting"
    /\ CallBrowser([phase |-> "resolve", task |-> t])

\* resolve_url of a resolve task comes to resolve_with_browser, from
\* resolve_generic or resolve_manbow: the task holds its `_permit` of
\* resolve_semaphore.
ResolveCallsBrowser(t) ==
    /\ resolve_handles[t].pc = "resolving"
    /\ CallBrowser([phase |-> "resolve", task |-> t])

\* resolve_url returns to the resolve task, after any call of
\* resolve_with_browser has returned.
ResolveReturns(t) ==
    /\ CallOf("resolve", t).pc \in {"idle", "returned"}
    /\ ResolveUrl(t)

\* try_download's secondary resolution comes to resolve_with_browser, through
\* find_download_from_candidates and resolve_url: the download task holds
\* its `_permit` of download_semaphore.
DownloadCallsBrowser(t) ==
    /\ download_handles[t].pc = "try_download"
    /\ CallBrowser([phase |-> "download", task |-> t])

\* try_download goes on, after any call of resolve_with_browser has returned.
TryDownloadReturns(t) ==
    /\ CallOf("download", t).pc \in {"idle", "returned"}
    /\ TryDownload(t)

NextGates ==
    \/ SpawnResolve
    \/ \E t \in Tasks : AcquireResolve(t)
    \/ \E t \in Tasks : ResolveCallsBrowser(t)
    \/ \E t \in Tasks : ResolveReturns(t)
    \/ JoinResolve
    \/ SpawnDownload
    \/ \E t \in Tasks : AcquireDownload(t)
    \/ \E t \in Tasks : CreateDir(t)
    \/ \E t \in Tasks : DownloadCallsBrowser(t)
    \/ \E t \in Tasks : TryDownloadReturns(t)
    \/ \E t \in Tasks : Sleep(t)
    \/ \E t \in Tasks : CreateTmp(t)
    \/ \E t \in Tasks : WriteChunk(t)
    \/ \E t \in Tasks : Rename(t)
    \/ \E t \in Tasks : IsHtml(t)
    \/ \E t \in Tasks : RemoveFile(t)
    \/ JoinDownload
    \/ \E c \in DOMAIN browser_calls : AcquireBrowser(c)
    \/ \E c \in DOMAIN browser_calls : LaunchBrowser(c)
    \/ \E c \in DOMAIN browser_calls : RenderPage(c)
    \/ \E c \in DOMAIN browser_calls : ScanLinks(c)
    \/ FanOut
    \/ \E k \in DOMAIN extract_handles : ExtractAndNormalize(k)
    \/ JoinExtract

\* The whole runs, gate by gate.
SpecGates == InitGates /\ [][NextGates]_vars

\* A run of main with NumContendTasks tasks, which wait for each other at
\* the gates.
InitContend ==
    /\ InitWith(NumContendTasks, "simple", {1})
    /\ AtRest("extraction") /\ AtRest("resolver") /\ AtRest("filename")
    /\ browser_semaphore = 1
    /\ browser_calls =
          [c \in {[phase |-> p, task |-> t] : p \in {"resolve", "download"}, t \in Tasks} |->
              BrowserCall("idle", FALSE, FALSE, None)]
    /\ extract_semaphore = MaxParallelism
    /\ extract_handles = <<>>
    /\ summary = NoSummary

SpecContend == InitContend /\ [][NextGates]_vars

\* The same, where a task that can take a step is run: every resolution,
\* browser call and transfer attempt comes to its end.
SpecContendFair == SpecContend /\ WF_vars(NextGates)

\* ------------------------------------------------------------------ claims

\* The places of the outcomes of task t in `results`.
ResultsOf(t) == {i \in DOMAIN results : results[i].task = t}

\* C1: execute_downloads returns exactly one outcome per input task: every
\* task whose handle has been awaited has one outcome in `results` and the
\* others none, a resolve or download task that panicked has the outcome
\* Failed, and when execute_downloads returns `results` is as long as
\* `tasks`.
C1_OneOutcomePerTask ==
    /\ \A i \in DOMAIN results : results[i].kind \in {"Success", "Skipped", "Failed"}
    /\ \A t \in Tasks :
         LET awaited == \/ resolve_handles[t].pc \in {"joined_Skipped", "joined_panicked"}
                        \/ download_handles[t].pc = "joined"
             panicked == \/ resolve_handles[t].pc = "joined_panicked"
                         \/ /\ download_handles[t].pc = "joined"
                            /\ download_handles[t].result.kind = "panicked"
         IN /\ Cardinality(ResultsOf(t)) = IF awaited THEN 1 ELSE 0
            /\ panicked => \A i \in ResultsOf(t) : results[i].kind = "Failed"
    /\ main.pc = "done" => Len(results) = Len(tasks)

\* execute_downloads has returned after one task panicked while resolving
\* and another while downloading.
C1_Witness ==
    /\ main.pc = "done"
    /\ Len(results) = Len(tasks)
    /\ \E t \in Tasks : resolve_handles[t].pc = "joined_panicked"
    /\ \E t \in Tasks : download_handles[t].result.kind = "panicked"

\* Where a download task stands while it holds its transfer permit.
TransferPcs ==
    {"create_dir", "try_download", "backoff", "create_tmp", "write", "is_html",
     "remove_file"}

InTransfer == {t \in Tasks : download_handles[t].pc \in TransferPcs}

\* C2: the tasks inside the transfer phase (creating the directory or
\* running download_file) are never more than `jobs`, each of them holding
\* one of the `jobs` permits of download_semaphore.
C2_TransfersWithinConcurrency ==
    /\ Cardinality(InTransfer) <= jobs
    /\ main.pc \in {"spawn_download", "join_download"} =>
         download_semaphore = jobs - Cardinality(InTransfer)

\* All permits are taken and a further task waits for one.
C2_Witness ==
    /\ Cardinality(InTransfer) = jobs
    /\ download_semaphore = 0
    /\ \E t \in Tasks : download_handles[t].pc = "waiting"

Resolving == {t \in Tasks : resolve_handles[t].pc = "resolving"}

\* C3: in phase 1 the tasks running resolve_url are never more than
\* 2 x jobs, each holding one of the 2 x jobs permits of resolve_semaphore;
\* the transfer gate is a semaphore of its own, which resolving tasks take
\* nothing from: it comes to be after phase 1, with all its `jobs` permits.
C3_ResolvesWithinTwiceConcurrency ==
    /\ Cardinality(Resolving) <= ResolveFactor * jobs
    /\ resolve_semaphore = ResolveFactor * jobs - Cardinality(Resolving)
    /\ download_semaphore = IF main.pc \in {"spawn_resolve", "join_resolve"} THEN 0 ELSE jobs

\* 2 x jobs tasks are resolving and a further task waits for a permit.
C3_Witness ==
    /\ Cardinality(Resolving) = ResolveFactor * jobs
    /\ resolve_semaphore = 0
    /\ \E t \in Tasks : resolve_handles[t].pc = "waiting"

\* C4: download_file makes at most 3 attempts; a first attempt that fails
\* with a 4xx status is the only one; a task that fails on a connection
\* reset has made all 3 attempts; a success ends the loop with the attempt
\* that brought it.
C4_AttemptCount ==
    \A t \in Tasks :
       LET h == download_handles[t]
       IN /\ h.requests <= MaxAttempts
          /\ h.err.kind = "http_4xx" /\ h.attempt = 0 =>
               /\ h.pc = "finished"
               /\ h.result.kind = "Failed"
               /\ h.requests = 1
               /\ h.slept = 0
          /\ h.err.kind = "network" =>
               \/ h.pc = "backoff" /\ h.requests < MaxAttempts
               \/ h.pc = "finished" /\ h.result.kind = "Failed" /\ h.requests = MaxAttempts
          /\ h.result.kind = "Success" =>
               /\ h.pc \in {"finished", "joined"}
               /\ h.pc = "finished" => h.requests = h.attempt + 1

\* Every attempt failed with a connection reset: the task made 3 attempts,
\* after backoffs of 4 and 16 seconds.
C4_Witness ==
    \E t \in Tasks :
       LET h == download_handles[t]
       IN /\ h.pc = "finished"
          /\ h.err.kind = "network"
          /\ h.requests = 3
          /\ h.slept = 20

\* The failures is_retryable gives up on.
NonRetryableKinds == {"http_4xx", "markup", "provider_denied"}

\* is_retryable gives up on exactly the errors of these kinds.
ClassifiedByKind ==
    \A e \in Errors : (<<e, TRUE>> \in Retryable) <=> (e.kind \notin NonRetryableKinds)

\* C5: an attempt's error ends the task at once exactly when it is a 4xx
\* status, markup instead of a binary, or a provider's removed/denied
\* condition; any other error (network, timeout, 5xx, body read, file
\* system) takes the task to the next attempt while one of the 3 is left.
C5_RetryableClassification ==
    /\ ClassifiedByKind
    /\ \A t \in Tasks :
         LET h == download_handles[t]
         IN /\ h.pc = "backoff" =>
                 /\ h.err.kind \notin NonRetryableKinds
                 /\ h.attempt = h.requests
                 /\ h.attempt < MaxAttempts
            /\ h.err.kind \in NonRetryableKinds =>
                 h.pc = "finished" /\ h.result.kind = "Failed"
            /\ h.pc = "finished" /\ h.result.kind = "Failed" /\ h.err # CreateDirError =>
                 \/ h.err.kind \in NonRetryableKinds
                 \/ h.requests = MaxAttempts

\* A retryable error used up the first attempt and markup found on the
\* second one ended the task.
C5_Witness ==
    \E t \in Tasks :
       LET h == download_handles[t]
       IN /\ h.pc = "finished"
          /\ h.err.kind = "markup"
          /\ h.requests = 2
          /\ h.slept = 4

\* C6 as the specification states it: after a response with a 4xx or 5xx
\* status the task makes no further attempt and its outcome is Failed.
C6_ErrorStatusIsTerminal ==
    \A t \in Tasks :
       LET h == download_handles[t]
       IN h.err.kind \in {"http_4xx", "http_5xx"} =>
            h.pc = "finished" /\ h.result.kind = "Failed"

\* C6, amended: a 4xx status ends the task with Failed and no further
\* attempt; a 5xx status only fails the attempt, which is retried, and ends
\* the task with Failed when it was the third attempt.
C6_ClientErrorTerminalServerErrorRetried ==
    \A t \in Tasks :
       LET h == download_handles[t]
       IN /\ h.err.kind = "http_4xx" =>
               h.pc = "finished" /\ h.result.kind = "Failed"
          /\ h.err.kind = "http_5xx" =>
               \/ h.pc = "backoff" /\ h.requests < MaxAttempts
               \/ h.pc = "finished" /\ h.result.kind = "Failed" /\ h.requests = MaxAttempts

\* A 5xx status failed the first attempt and the task goes on to a second.
C6_Witness ==
    \E t \in Tasks :
       LET h == download_handles[t]
       IN /\ h.pc = "backoff"
          /\ h.err.kind = "http_5xx"
          /\ h.attempt = 1

\* C7: a task whose resolution returned an error never enters phase 2 (it is
\* not among resolved_tasks, no download task is spawned for it, so it takes
\* no permit and sends no request) and, once awaited, has the outcome
\* Skipped; when no task is resolved, no directory and no file is made.
C7_SkippedNeverTransfers ==
    /\ \A t \in Tasks :
         resolve_handles[t].pc \in {"Skipped", "joined_Skipped"} =>
            /\ download_handles[t] = IdleHandle
            /\ t \notin Range(resolved_tasks)
            /\ resolve_handles[t].pc = "joined_Skipped" =>
                 \E i \in DOMAIN results :
                    results[i] = Skipped(t, tasks[t].url, ResolveReason)
    /\ (\A t \in Tasks : resolve_handles[t].pc \notin {"Resolved", "joined_Resolved"}) =>
         dirs = {} /\ files = EmptyMap

\* execute_downloads has returned: one task was skipped, another went
\* through phase 2 to a Success.
C7_Witness ==
    /\ main.pc = "done"
    /\ \E t \in Tasks : resolve_handles[t].pc = "joined_Skipped"
    /\ \E t \in Tasks : download_handles[t].result.kind = "Success"

\* C8: a resolved task whose output directory cannot be created returns
\* Failed with that error at once: download_file is not called, no request
\* is sent and no backoff is slept.
C8_DirFailureFailsAtOnce ==
    \A t \in Tasks :
       LET h == download_handles[t]
       IN h.err = CreateDirError =>
            /\ h.pc = "finished"
            /\ h.result = Failed(t, tasks[t].url, CreateDirError.msg)
            /\ h.requests = 0
            /\ h.attempt = 0
            /\ h.slept = 0

\* create_dir_all failed for a task while another task has sent requests.
C8_Witness ==
    /\ \E t \in Tasks : download_handles[t].err = CreateDirError
    /\ \E t \in Tasks : download_handles[t].requests > 0

\* The bytes of a file are one complete body.
Complete(content) ==
    /\ content # <<>>
    /\ Len(content) = content[1].of
    /\ \A i \in DOMAIN content : content[i].idx = i /\ content[i].src = content[1].src

\* C9: in a single transfer the open file that receives the body is the one
\* named `.<filename>.tmp`, never the one of the final name; a file of the
\* final name exists only once the rename after the complete write has been
\* made, and holds a complete body; a task that failed before the rename
\* has made no file of the final name.
C9_FinalNameOnlyByRename ==
    \A t \in Tasks :
       LET h == download_handles[t]
           final == tasks[t].fallback_name
           tmp == "." \o final \o ".tmp"
       IN /\ h.handle # None =>
               /\ tmp \in DOMAIN files /\ files[tmp] = h.handle
               /\ final \in DOMAIN files => files[final] # h.handle
          /\ final \in DOMAIN files =>
               /\ Complete(inodes[files[final]])
               /\ h.pc \in {"is_html", "remove_file", "finished", "joined"}
          /\ h.pc = "finished" /\ h.result.kind = "Failed" /\ h.err # DownloadedHtmlError =>
               final \notin DOMAIN files

\* Reading the body failed on the second attempt, after a first attempt that
\* failed too: the temporary file is there, no file of the final name is.
C9_Witness ==
    \E t \in Tasks :
       LET h == download_handles[t]
           final == tasks[t].fallback_name
       IN /\ h.pc = "backoff"
          /\ h.err = BodyReadError
          /\ h.attempt = 2
          /\ ("." \o final \o ".tmp") \in DOMAIN files
          /\ final \notin DOMAIN files

\* C10 as the specification states it, for the files at rest: when
\* execute_downloads has returned, the file at the path of a Success is no
\* markup; and a task that found markup after the rename has failed on that
\* attempt.
C10_SuccessIsNeverMarkup ==
    /\ main.pc = "done" =>
         \A i \in DOMAIN results, n \in DOMAIN files :
            /\ results[i].kind = "Success"
            /\ PathOf(results[i].task, n) = results[i].text
            => ~is_html(inodes[files[n]])
    /\ \A t \in Tasks :
         download_handles[t].err = DownloadedHtmlError =>
            /\ download_handles[t].pc = "finished"
            /\ download_handles[t].result.kind = "Failed"

\* A name that is a path-traversal pattern: absolute, or with a `..` in it.
Traversal(name) == name # <<>> /\ (name[1] = Root \/ ".." \in Range(name))

\* What the file system holds outside the extraction workspace before
\* extract_and_normalize relocates anything.
OutsideBefore == {<<Root>>, Parent, archive_path, join(Parent, <<"b">>)}

\* C11: every entry of a zip archive whose name is a path-traversal pattern
\* (absolute, or relative with `..`) is skipped by extract_zip, and while
\* extract_zip runs nothing comes to exist outside the output directory.
C11_TraversalEntriesAreSkipped ==
    (extraction.format = "Zip" /\ extraction.pc \in {"unpack", "flatten"}) =>
        /\ \A i \in 1..(extraction.i - 1) :
              Traversal(archive.entries[i].name) => i \in extraction.skipped
        /\ \A p \in DOMAIN tree : starts_with(p, extract_dir) \/ p \in OutsideBefore

\* C19: once extract_and_normalize has returned, with Ok or with an error,
\* the extraction workspace `.<stem>_extracted` does not exist.
C19_WorkspaceGoneAfterReturn ==
    extraction.pc = "returned" => extract_dir \notin DOMAIN tree

\* The leading bytes of the file detect has looked at, and the tests on them.
Magic == archive.magic

IsZip == starts_with(Magic, <<"P", "K">>)

IsRar == starts_with(Magic, <<"R", "a", "r", "!">>)

Is7z == starts_with(Magic, <<"7", "z", "BC", "AF", "27", "1C">>)

\* What the lowercased extension stands for, where it stands for a format.
ByExtension ==
    [x \in {"zip", "rar", "7z", "lzh", "lha"} |->
        CASE x = "zip" -> "Zip" [] x = "rar" -> "Rar" [] x = "7z" -> "SevenZ"
          [] OTHER -> "Lzh"]

\* The format detect has to find, given when the leading bytes are those of
\* an lzh file.
Detected(is_lzh) ==
    extraction.format =
       IF IsZip THEN "Zip"
       ELSE IF IsRar THEN "Rar"
       ELSE IF Is7z THEN "SevenZ"
       ELSE IF is_lzh THEN "Lzh"
       ELSE IF to_lowercase(archive.ext) \in DOMAIN ByExtension
       THEN ByExtension[to_lowercase(archive.ext)]
       ELSE "unknown"

InGate == {c \in DOMAIN browser_calls : browser_calls[c].pc \in {"launch", "new_page", "wait_for_navigation", "evaluate", "scan"}}

\* C12: at most one call of resolve_with_browser, whatever the phase of its
\* caller, is between acquiring the gate and returning, and at most one
\* browser is launched and alive.
C12_OneBrowserAtMost ==
    /\ Cardinality(InGate) <= 1
    /\ Cardinality({c \in DOMAIN browser_calls : browser_calls[c].browser}) <= 1

\* A download task waits at the gate while a resolve task owns the browser.
C12_Witness ==
    \E c \in InGate, w \in DOMAIN browser_calls :
        /\ c.phase = "resolve" /\ browser_calls[c].browser
        /\ w.phase = "download" /\ browser_calls[w].pc = "acquire"

\* C13: a call of resolve_with_browser that has returned, with a link or
\* with any error, owns neither a browser nor the permit, and a call that
\* waits at the gate acquires it in the end.
C13_GateReleasedOnEveryExit ==
    /\ [](\A c \in DOMAIN browser_calls :
             browser_calls[c].pc = "returned" =>
                ~browser_calls[c].browser /\ ~browser_calls[c].permit)
    /\ \A c \in Callers :
          (c \in DOMAIN browser_calls /\ browser_calls[c].pc = "acquire")
             ~> (browser_calls[c].pc \in {"launch"})

\* A call has acquired the gate after another one failed inside it.
C13_Witness ==
    \E c \in InGate, d \in DOMAIN browser_calls :
        browser_calls[d].pc = "returned" /\ browser_calls[d].result = "Err"

\* C14: a resolution that succeeded through a recursive call of resolve_url
\* on a scraped candidate returns the URL given to the outermost call as
\* `original`.
C14_OriginalIsTopLevelInput ==
    (resolve_result.pc = "Resolved" /\ resolve_result.hops > 0) =>
        resolve_result.original = task_url

\* The hosts resolve_url rewrites without a request.
DriveHost == "drive.google.com"

DropboxHosts == {"dropbox.com", "www.dropbox.com", "dl.dropboxusercontent.com"}

\* C15: resolve_url called on the URL it returned for a Drive or Dropbox
\* URL returns that URL again.
C15_ResolveIsIdempotent ==
    (/\ resolve_result.calls = 2 /\ resolve_result.pc # "resolving"
     /\ resolve_result.first.host \in {DriveHost} \cup DropboxHosts) =>
        resolve_result.pc = "Resolved" /\ resolve_result.url = task_url

\* The export-download URL of a file ID.
Canonical(id) ==
    Url(DriveHost, <<<<"uc">>>>,
        <<"export", "=", "download", "&", "id", "=">> \o id \o <<"&", "confirm", "=", "t">>)

\* The segments that follow a `/file/d/` in the path of the task's URL, and
\* the values of its `id` parameters, in their order.
FileSegments ==
    LET path == task_url.path
    IN  SelectSeq([i \in 1..(Len(path) - 2) |->
                      IF path[i] = <<"file">> /\ path[i + 1] = <<"d">> THEN path[i + 2] ELSE <<"/">>],
                  LAMBDA x : x # <<"/">>)

IdValues == SelectSeq(query_pairs(task_url.query), LAMBDA kv : kv[1] = <<"id">>)

\* C16: a Drive URL is resolved without a request and without the browser,
\* to the export-download URL of the segment after `/file/d/` if there is
\* one and it is not empty, else of the value of the `id` parameter; with
\* neither the resolution fails.
C16_DriveRewrite ==
    (task_url.host = DriveHost /\ resolve_result.pc # "resolving") =>
        /\ resolve_result.requests = 0 /\ resolve_result.browser = 0
        /\ IF FileSegments # <<>> /\ FileSegments[1] # <<>>
           THEN resolve_result.pc = "Resolved" /\ resolve_result.url = Canonical(FileSegments[1])
           ELSE IF IdValues # <<>>
           THEN resolve_result.pc = "Resolved" /\ resolve_result.url = Canonical(IdValues[1][2])
           ELSE resolve_result.pc = "Skipped"

\* A Drive URL with one file ID in the path and another in the query has
\* been resolved.
C16_Witness ==
    /\ task_url.host = DriveHost /\ resolve_result.pc = "Resolved"
    /\ FileSegments # <<>> /\ FileSegments[1] # <<>>
    /\ IdValues # <<>> /\ IdValues[1][2] # FileSegments[1]

\* The parameters of the task's URL with every `dl` set to 1, and with
\* `dl=1` at the end when there is none.
DlForced ==
    LET pairs == query_pairs(task_url.query)
        forced == [i \in DOMAIN pairs |->
                      IF pairs[i][1] = <<"dl">> THEN <<<<"dl">>, <<"1">>>> ELSE pairs[i]]
    IN  IF \E i \in DOMAIN pairs : pairs[i][1] = <<"dl">> THEN forced
        ELSE Append(pairs, <<<<"dl">>, <<"1">>>>)

\* C17: a Dropbox URL is resolved to the URL of the same host and path
\* whose parameters are those of the input, in their order and with their
\* values, but for `dl`, which is 1 and is added when absent.
C17_DropboxForcesDl ==
    (task_url.host \in DropboxHosts /\ resolve_result.pc # "resolving") =>
        /\ resolve_result.pc = "Resolved"
        /\ resolve_result.url.host = task_url.host
        /\ resolve_result.url.path = task_url.path
        /\ query_pairs(resolve_result.url.query) = DlForced

\* A Dropbox URL with `dl=0` after a parameter whose value is encoded has
\* been resolved.
C17_Witness ==
    /\ task_url.host \in DropboxHosts /\ resolve_result.pc = "Resolved"
    /\ task_url.query = <<"st", "=", "b", "%20", "c", "&", "dl", "=", "0">>

\* C18: a mega.nz URL makes the resolve task end as Skipped with the fixed
\* reason, after one call of resolve_url, no request and no call of
\* resolve_with_browser.
C18_UnsupportedIsSkipped ==
    (task_url.host = "mega.nz" /\ resolve_result.pc # "resolving") =>
        /\ resolve_result.pc = "Skipped"
        /\ resolve_result.url = task_url
        /\ resolve_result.reason = "mega.nz is not supported (encryption API required)"
        /\ resolve_result.requests = 0 /\ resolve_result.browser = 0
        /\ resolve_result.calls = 1

\* The resolve task of a mega.nz URL has ended.
C18_Witness ==
    task_url.host = "mega.nz" /\ resolve_result.pc = "Skipped"

\* The names the sources of one response hold, by the response as the server
\* made it: the decoded value of a `filename*=UTF-8''` parameter, the value
\* of a `filename=` parameter, the decoded last segment of the URL path.  An
\* empty text is no name.
NamesOf(kind) ==
    LET values ==
            CASE kind = "filename*" ->
                    UNION {decode(p.value) : p \in {q \in Range(saved.resp.params) :
                              q.kind = kind /\ q.charset \in {"UTF-8''", "utf-8''"}}}
              [] kind = "filename" ->
                    {p.value : p \in {q \in Range(saved.resp.params) : q.kind = kind}}
              [] OTHER -> decode(saved.resp.path[Len(saved.resp.path)])
    IN  values \ {<<>>}

\* C21: the filename is the name of the first source that holds one, in the
\* order extended parameter, plain parameter, URL path segment, and the
\* fallback name when none of them holds a name.
C21_FilenamePrecedence ==
    saved.pc = "create_tmp" =>
        LET first == IF NamesOf("filename*") # {} THEN NamesOf("filename*")
                     ELSE IF NamesOf("filename") # {} THEN NamesOf("filename")
                     ELSE NamesOf("url")
        IN  saved.filename = IF first = {} THEN saved.fallback_name
                             ELSE sanitize_filename(CHOOSE n \in first : TRUE)

Unsafe == {"/", "\\", ":", "*", "?", "\"", "<", ">", "|", "NUL"}

\* C22: the filename save_response builds its paths from holds none of the
\* characters / \ : * ? " < > | and NUL, whichever source supplied it.
C22_FilenameIsSanitized ==
    saved.pc = "create_tmp" =>
        /\ \A i \in DOMAIN saved.filename : saved.filename[i] \notin Unsafe
        /\ \A i \in DOMAIN saved.tmp : saved.tmp[i] \notin Unsafe

\* A file is named by the fallback name of an entry whose title held a
\* separator.
C22_Witness ==
    /\ saved.pc = "create_tmp"
    /\ saved.resp.params = <<>>
    /\ saved.resp.path[Len(saved.resp.path)] = <<>>
    /\ saved.filename = <<"st", "_", "_", "t", "_", "x", ".zip">>

\* The extraction tasks that are inside extract_and_normalize.
Extracting == {k \in DOMAIN extract_handles : extract_handles[k].permit}

\* C25: no two extract_and_normalize calls that run at the same time work
\* in the same `.<stem>_extracted` directory.
C25_WorkspaceHasOneOwner ==
    \A k, l \in Extracting :
        extract_dir_of(extract_handles[k].path) = extract_dir_of(extract_handles[l].path)
            => k = l

\* The gates whose permits a task holds: a resolve task, a download task or
\* an extraction task, by its number.
GatesHeld(kind, n) ==
    CASE kind = "resolve" ->
            (IF resolve_handles[n].pc = "resolving" THEN {"resolution"} ELSE {})
            \cup (IF CallOf("resolve", n).permit THEN {"browser"} ELSE {})
      [] kind = "download" ->
            (IF download_handles[n].pc \in TransferPcs THEN {"transfer"} ELSE {})
            \cup (IF CallOf("download", n).permit THEN {"browser"} ELSE {})
      [] OTHER -> IF extract_handles[n].permit THEN {"extraction"} ELSE {}

AllGatesHeld ==
    {GatesHeld(kind, t) : kind \in {"resolve", "download"}, t \in Tasks}
    \cup {GatesHeld("extract", k) : k \in DOMAIN extract_handles}

\* C23 as stated: no task holds permits of two gate types at once.
C23_OneGateTypePerTask == \A held \in AllGatesHeld : Cardinality(held) <= 1

\* C23: a task holds no two of the resolution, transfer and extraction gates
\* at once; the browser gate is held only by a task that holds its
\* resolution or transfer permit, taken after it and given back before it.
C23_BrowserGateIsInnermost ==
    AllGatesHeld \subseteq {{}, {"resolution"}, {"transfer"}, {"extraction"},
                            {"resolution", "browser"}, {"transfer", "browser"}}

\* A download task holds its transfer permit and the browser permit, after
\* it held its resolution permit and the browser permit as a resolve task.
C23_Witness ==
    \E t \in Tasks :
        /\ GatesHeld("download", t) = {"transfer", "browser"}
        /\ CallOf("resolve", t).pc = "returned"

\* C24: of two transfers that chose the same final filename neither fails
\* through the other (no rename finds its temporary file gone), and when
\* both have finished the file of the final name, the path of a Success,
\* holds one complete body, never a mixture and never a truncated one.
C24_LastRenameWins ==
    /\ \A t \in Tasks : download_handles[t].err # RenameError
    /\ main.pc = "done" =>
         \A i \in DOMAIN results, n \in DOMAIN files :
            /\ results[i].kind = "Success"
            /\ PathOf(results[i].task, n) = results[i].text
            => Complete(inodes[files[n]])

\* The phase whose join pushed an outcome: phase 1 for the task of a
\* resolution that was skipped or panicked, else phase 2.
PhaseOf(r) ==
    IF resolve_handles[r.task].pc \in {"joined_Skipped", "joined_panicked"} THEN 1 ELSE 2

\* The outcome of a task, from what its resolve task and its download task
\* came to.
OutcomeOf(t) ==
    CASE resolve_handles[t].pc = "joined_Skipped" -> Skipped(t, tasks[t].url, ResolveReason)
      [] resolve_handles[t].pc = "joined_panicked" ->
            Failed(t, "unknown", "resolve task panicked")
      [] download_handles[t].result.kind = "panicked" -> Failed(t, "unknown", "task panicked")
      [] OTHER -> download_handles[t].result

\* The handles of hs that have their permit, or had it, are those of the
\* first tasks of the list.
AcquiredInOrder(hs, list) ==
    \A i, j \in DOMAIN list :
        i < j /\ hs[list[j]].pc \notin {"unspawned", "waiting"}
            => hs[list[i]].pc \notin {"unspawned", "waiting"}

\* The handles of hs that have been spawned are those of the first tasks
\* of the list.
SpawnedInOrder(hs, list) ==
    \A i, j \in DOMAIN list :
        i < j /\ hs[list[j]].pc # "unspawned" => hs[list[i]].pc # "unspawned"

\* The outcome list is the phase-1 outcomes in input order, then the
\* phase-2 outcomes in input order; when execute_downloads returns it holds
\* for every task what that task came to.
OutcomesInOrder ==
    /\ \A i, j \in DOMAIN results :
          i < j => /\ PhaseOf(results[i]) <= PhaseOf(results[j])
                   /\ PhaseOf(results[i]) = PhaseOf(results[j])
                         => results[i].task < results[j].task
    /\ main.pc = "done" =>
          /\ Len(results) = Len(tasks)
          /\ \A i \in DOMAIN results : results[i] = OutcomeOf(results[i].task)

\* C26 as stated: in each phase the tasks take their permits in input
\* order, and the outcome list is the phase-1 outcomes in input order
\* followed by the phase-2 outcomes in input order.
C26_StartedInInputOrder ==
    /\ AcquiredInOrder(resolve_handles, [t \in Tasks |-> t])
    /\ AcquiredInOrder(download_handles, resolved_tasks)
    /\ OutcomesInOrder

\* C26: in each phase the tasks are spawned in input order (the order in
\* which they take their permits is the scheduler's), and the outcome list
\* is the phase-1 outcomes in input order followed by the phase-2 outcomes
\* in input order, whatever the order in which the tasks ended.
C26_OutcomesInInputOrder ==
    /\ SpawnedInOrder(resolve_handles, [t \in Tasks |-> t])
    /\ SpawnedInOrder(download_handles, resolved_tasks)
    /\ OutcomesInOrder

\* execute_downloads has returned the skip of the second task before the
\* outcome of the first, which was downloaded.
C26_Witness ==
    /\ main.pc = "done"
    /\ Len(results) = 2
    /\ results[1].kind = "Skipped" /\ results[1].task = 2
    /\ results[2].kind = "Success" /\ results[2].task = 1

\* C28: when resolve_url fails on a known scrape target because no
\* candidate of the fetched page was accepted, resolve_with_browser has
\* been called before.
C28_BrowserBeforeFailure ==
    (/\ resolve_result.pc = "Skipped"
     /\ resolve_result.first.host \in {"manbow.nothing.sh", "venue.bmssearch.net"}
     /\ resolve_result.reason \in {"no download link found on manbow page",
                                   "no download link found on venue.bmssearch.net page"})
        => resolve_result.browser >= 1

\* C27: a resolution never nests resolve_url calls deeper than one hop,
\* and it ends: whatever the pages hold, resolve_url returns a result.
C27_RecursionIsBounded ==
    /\ [](resolve_result.hops <= 1)
    /\ <>(resolve_result.pc = "returned")

\* The call resolve_url was in when the resolution returned was the first
\* one, on a host with no resolver of its own.
GenericAtInput ==
    /\ resolve_result.pc = "returned"
    /\ resolve_result.hops = 0
    /\ task_url.host \in {"example.com", "onedrive.live.com"}

PassedThrough == resolve_result.ret = {Returned(TRUE, task_url, task_url, None)}

\* C29: for a URL on an unknown host, a path with an archive extension is
\* returned unchanged and no request is sent; a response that is no HTML
\* returns the URL unchanged; and a page with no accepted candidate, when
\* the browser finds nothing or fails, returns Ok with url = original = the
\* input URL.
C29_UnknownHostPassesThrough ==
    GenericAtInput =>
        /\ is_archive(task_url) => PassedThrough /\ resolve_result.requests = 0
        /\ resolve_result.fetch = "not_html" => PassedThrough
        /\ (/\ resolve_result.fetch = "html"
            /\ resolve_result.chosen = {}
            /\ resolve_result.rendered = "Err") =>
              PassedThrough /\ task_url = resolve_result.input

\* The page of an unknown host held no accepted candidate, the browser was
\* tried and failed, and the URL has been passed through.
C29_Witness ==
    /\ GenericAtInput
    /\ task_url.host = "example.com"
    /\ resolve_result.fetch = "html"
    /\ Len(resolve_result.page) = MaxCandidates
    /\ resolve_result.chosen = {}
    /\ resolve_result.browser = 1
    /\ resolve_result.rendered = "Err"
    /\ PassedThrough

\* The places of the page whose candidate find_download_from_candidates
\* accepts, read from the page itself: links everywhere, embedded URLs on
\* venue.bmssearch.net.
AcceptedPlaces(host, page) ==
    {p \in DOMAIN page :
        /\ page[p].kind = "json" => host = "venue.bmssearch.net"
        /\ candidate_is_archive(page[p].url) \/ candidate_is_hosting(page[p].url)}

\* Place p comes before place q in the scan: by document order within a
\* kind, and an embedded URL before any link.
ScannedBefore(page, p, q) ==
    \/ page[p].kind = page[q].kind /\ p < q
    \/ page[p].kind = "json" /\ page[q].kind = "href"

\* The host of the call that scanned the page last: the call under way,
\* or, when resolve_url has just been called on a candidate, the caller.
ScanHost ==
    IF resolve_result.pc # "resolve_url" THEN task_url.host
    ELSE IF resolve_result.hops = 1 THEN resolve_result.input.host
    ELSE "onedrive.live.com"

\* What the call that has scanned `page` did on the candidate at place p.
ActedOn(page, p) ==
    IF candidate_is_archive(page[p].url)
    THEN /\ resolve_result.pc = "returned"
         /\ \A r \in resolve_result.ret : r.ok /\ r.url = page[p].url
    ELSE /\ resolve_result.pc = "resolve_url"
         /\ task_url = page[p].url

\* C30: once find_download_from_candidates has scanned a page, the
\* candidate it acted on is the first accepted one of the scan order
\* (document order, on venue.bmssearch.net embedded URLs before links):
\* an archive link is returned as the result, a hosting link is what
\* resolve_url is called on, and no later candidate changes that; with no
\* accepted candidate none is chosen.
C30_FirstAcceptedCandidateWins ==
    (resolve_result.fetch = "html" /\ resolve_result.pc # "find_download_from_candidates")
    => LET page == resolve_result.page
           accepted == AcceptedPlaces(ScanHost, page)
       IN  /\ accepted = {} <=> resolve_result.chosen = {}
           /\ \A p \in resolve_result.chosen :
                 /\ p \in accepted
                 /\ \A q \in accepted \ {p} : ScannedBefore(page, p, q)
                 /\ ActedOn(page, p)

\* On a venue.bmssearch.net page an embedded URL has been chosen although
\* an accepted link stands before it in the document.
C30_Witness ==
    /\ resolve_result.pc = "returned"
    /\ resolve_result.input.host = "venue.bmssearch.net"
    /\ resolve_result.hops = 0
    /\ resolve_result.chosen = {2}
    /\ resolve_result.page[1].kind = "href"
    /\ candidate_is_archive(resolve_result.page[1].url)
    /\ resolve_result.page[2].kind = "json"

\* The backoff sleeps a download task has finished.
SleepsDone(h) == IF h.pc = "backoff" THEN h.attempt - 1 ELSE h.attempt

\* C31: a task has slept nothing before its first attempt, 4 seconds before
\* the second and 16 more before the third; it sleeps only between two
\* attempts, so a task that has returned has slept for the attempts it
\* made and no more: nothing after the last attempt, nothing after an
\* error that is not retried.
C31_ExponentialBackoff ==
    \A t \in Tasks :
       LET h == download_handles[t]
       IN /\ SleepsDone(h) \in 0..(MaxAttempts - 1)
          /\ h.slept = CASE SleepsDone(h) = 0 -> 0
                         [] SleepsDone(h) = 1 -> 4
                         [] OTHER -> 4 + 16
          /\ h.pc = "finished" => h.requests = 0 \/ SleepsDone(h) = h.requests - 1

\* A task is about to make its third attempt: it has slept 4 and then 16
\* seconds.
C31_Witness ==
    \E t \in Tasks :
       LET h == download_handles[t]
       IN /\ h.pc = "try_download"
          /\ h.requests = 2
          /\ h.attempt = 2
          /\ h.slept = 20

\* The outcomes main has gone through in its loop over `results`.
Handled == IF main.pc = "done" THEN SubSeq(results, 1, main.i - 1) ELSE results

\* The paths of the Success outcomes main has gone through, in order.
SuccessPaths ==
    LET ss == SelectSeq(Handled, LAMBDA r : r.kind = "Success")
    IN  [i \in DOMAIN ss |-> ss[i].text]

\* An extraction task was spawned for each Success gone through and for
\* nothing else, and once main has awaited the handles every one of them
\* has run to its end, whatever the others returned.
ExtractedOncePerSuccess ==
    /\ [k \in DOMAIN extract_handles |-> extract_handles[k].path] = SuccessPaths
    /\ main.pc \notin {"done", "join_extract"} =>
          \A k \in DOMAIN extract_handles :
             extract_handles[k].pc = "joined" /\ extract_handles[k].result \in {"Ok", "Err"}

\* C32: extract_and_normalize is called once for every Success and for no
\* other outcome; an extraction that fails stops neither the others nor
\* main, which goes on to its summary unless a read_dir or the write of
\* failed.log of its own fails.
C32_ExtractionErrorsAreLogged ==
    /\ []ExtractedOncePerSuccess
    /\ <>(main.pc \in {"summary", "read_dir_failed", "write_failed"})
    /\ [](main.pc \in {"read_dir_failed", "write_failed"} => summary.printed = {})

\* main has printed its summary after two extractions, of which the first
\* failed and the second did not.
C32_Witness ==
    /\ main.pc = "summary"
    /\ summary.printed # {}
    /\ Len(extract_handles) = 2
    /\ extract_handles[1].result = "Err"
    /\ extract_handles[2].result = "Ok"

\* The lines of failed.log: none when there is no file.
LogLines == IF summary.failed_log = {} THEN <<>> ELSE CHOOSE l \in summary.failed_log : TRUE

\* The Failed and Skipped outcomes of the run, in the order of `results`,
\* each as the pair of its URL and its reason.
FailedOrSkipped ==
    LET fs == SelectSeq(results, LAMBDA r : r.kind \in {"Failed", "Skipped"})
    IN  [i \in DOMAIN fs |-> <<fs[i].url, fs[i].text>>]

\* C33: when main has come to its summary, failed.log holds one line
\* `<url>\t<reason>` for every Failed and every Skipped outcome, and so as
\* many lines as there are such outcomes.
C33_LogHoldsFailedAndSkipped ==
    main.pc = "summary" =>
        /\ Len(LogLines) = summary.fail_count + summary.skip_count
        /\ \A i \in DOMAIN FailedOrSkipped :
              \E j \in DOMAIN LogLines : LogLines[j] = FailedOrSkipped[i]

\* C34: a download task is spawned, and so takes its transfer permit, only
\* when every resolve task has ended and been awaited; no task is inside
\* resolve_url while another is in the transfer phase.
C34_PhasesDoNotOverlap ==
    /\ (\E t \in Tasks : download_handles[t].pc # "unspawned") =>
          \A u \in Tasks :
             resolve_handles[u].pc \in {"joined_Resolved", "joined_Skipped", "joined_panicked"}
    /\ InTransfer # {} => Resolving = {}

\* A task is writing its file; the resolve task of another one had
\* panicked, both resolve tasks have been awaited.
C34_Witness ==
    /\ \E t \in Tasks : download_handles[t].pc = "write"
    /\ \E u \in Tasks : resolve_handles[u].pc = "joined_panicked"
    /\ \A u \in Tasks : resolve_handles[u].pc \notin {"waiting", "resolving"}

\* Every permit of the resolution, transfer and browser gates is back.
AllPermitsReleased ==
    /\ resolve_semaphore = ResolveFactor * jobs
    /\ download_semaphore \in {0, jobs}
    /\ download_semaphore = 0 => resolved_tasks = <<>>
    /\ browser_semaphore = 1
    /\ \A c \in DOMAIN browser_calls : ~browser_calls[c].permit

\* C35: execute_downloads returns, whatever the tasks come to and however
\* they wait for each other at the gates, and when it has returned every
\* permit of every gate has been given back.
C35_ExecuteDownloadsTerminates ==
    /\ <>(main.pc = "done")
    /\ [](main.pc = "done" => AllPermitsReleased)

\* Two tasks are resolving, each with its permit of resolve_semaphore: one
\* holds the browser permit as well, the other waits for it.
C35_Witness ==
    \E t, u \in Tasks :
        /\ resolve_handles[t].pc = "resolving" /\ resolve_handles[u].pc = "resolving"
        /\ CallOf("resolve", t).permit
        /\ CallOf("resolve", u).pc = "acquire"
        /\ browser_semaphore = 0

\* C36: the filename save_response joins to the output directory names a
\* direct child of it: it is not empty, it is neither `.` nor `..`, and it
\* holds no path separator, whatever header and URL the response has.
C36_DestIsDirectChild ==
    saved.pc = "create_tmp" =>
        /\ saved.filename # <<>>
        /\ saved.filename \notin {<<".">>, <<"..">>}
        /\ \A i \in DOMAIN saved.filename : saved.filename[i] \notin {"/", "\\"}

====
